---- MODULE Spec2Model ----
(***************************************************************************)
(* A model of src/slurm_digest/slurm_digest.py: the change file, main()'s  *)
(* steps over it, and the pure functions main() is built from.             *)
(*                                                                         *)
(* Python strings are sequences of one-character strings, so that strip,   *)
(* split, lower, startswith, zfill and the regular expression are computed *)
(* character by character as the code computes them.  Python dictionaries  *)
(* are sequences of <<key, value>> pairs in insertion order (the order     *)
(* dict.keys() has since Python 3.7, which parse_change_file relies on     *)
(* when it builds a row by iterating FIELDS.keys()).  A call that can      *)
(* raise returns [exc |-> <exception name or "">, val |-> <result>].       *)
(***************************************************************************)
EXTENDS Integers, Sequences, FiniteSets, TLC

VARIABLES
    pc,                     \* main(): the statement main() is about to run
    exc,                    \* main(): the uncaught exception that ended it, or ""
    change_file,            \* CHANGE_FILE: "missing", or its lines
    parsed_file,            \* main(): parsed_file
    host_type_rows,         \* main(): host_type_rows
    notification_type_rows, \* main(): notification_type_rows
    service_rows,           \* get_digest_html/get_digest_text: service_rows
    slurm_rows,             \* get_digest_html/get_digest_text: slurm_rows
    email_html,             \* main(): email_html
    email_text,             \* main(): email_text
    outbox,                 \* the messages send_email_html has delivered
    node_list,              \* get_node_list_string: its argument
    node_list_string,       \* get_node_list_string: its result
    reason_rows,            \* get_rows_by_slurm_reason: its argument
    output_reasons,         \* get_rows_by_slurm_reason: its result
    hostname,               \* a host name given to the host matcher
    host_type,              \* get_rows_by_host_type: the bucket of a row with that host
    cluster_nodes,          \* get_nodes_by_cluster: its result on a row with that host
    digest_rows,            \* get_digest_html/get_digest_text: the problem_rows given
    digest_html,            \* get_digest_html: its result on those rows
    digest_text,            \* get_digest_text: its result on those rows
    config_file,            \* add_account.py: the configuration file at config_path
    new_entry,              \* add_entry: its argument entry
    errors                  \* add_entry: errors, as printed at the end

vars == <<pc, exc, change_file, parsed_file, host_type_rows, notification_type_rows,
          service_rows, slurm_rows, email_html, email_text, outbox,
          node_list, node_list_string, reason_rows, output_reasons,
          hostname, host_type, cluster_nodes,
          digest_rows, digest_html, digest_text, config_file, new_entry, errors>>

mainVars == <<pc, exc, change_file, parsed_file, host_type_rows, notification_type_rows,
              service_rows, slurm_rows, email_html, email_text, outbox>>
rangeVars == <<node_list, node_list_string>>
reasonVars == <<reason_rows, output_reasons>>
hostVars == <<hostname, host_type, cluster_nodes>>
digestVars == <<digest_rows, digest_html, digest_text>>
accountVars == <<config_file, new_entry, errors>>

(***************************************************************************)
(* Bounds of the model.                                                    *)
(***************************************************************************)
\* the largest number of lines of the change file
MaxLines == 2
\* the longest list of node numbers given to get_node_list_string as a list
MaxNodeListLen == 3
\* the longest list of rows given to get_rows_by_slurm_reason
MaxReasonRows == 3
\* the longest list of problem rows given to get_digest_html and get_digest_text
MaxDigestRows == 3
\* the largest number of lines of the configuration file given to add_entry
MaxConfigLines == 4
\* the largest number of lines the change file grows by while main runs
MaxAppendedLines == 1

(***************************************************************************)
(* Characters and the str methods the code uses.                           *)
(***************************************************************************)
UpperCase == <<"A","B","C","D","E","F","G","H","I","J","K","L","M","N","O","P","Q","R","S","T","U","V","W","X","Y","Z">>
LowerCase == <<"a","b","c","d","e","f","g","h","i","j","k","l","m","n","o","p","q","r","s","t","u","v","w","x","y","z">>
Digits == <<"0","1","2","3","4","5","6","7","8","9">>
\* the characters of the model in code-point order
ASCII == <<"\t","\n","\r"," ",",","-",".","/","0","1","2","3","4","5","6","7","8","9",":","A","B","C","D","E","F","G","H","I","J","K","L","M","N","O","P","Q","R","S","T","U","V","W","X","Y","Z","_","a","b","c","d","e","f","g","h","i","j","k","l","m","n","o","p","q","r","s","t","u","v","w","x","y","z">>

Range(s) == {s[i] : i \in DOMAIN s}
IsDigit(c) == c \in Range(Digits)
IsSpace(c) == c \in {" ", "\t", "\n", "\r"}
Ord(c) == CHOOSE i \in DOMAIN ASCII : ASCII[i] = c
DigitVal(c) == (CHOOSE i \in DOMAIN Digits : Digits[i] = c) - 1

\* str.lower()
lower_char(c) ==
    IF c \in Range(UpperCase)
    THEN LowerCase[CHOOSE i \in DOMAIN UpperCase : UpperCase[i] = c]
    ELSE c
lower(s) == [i \in DOMAIN s |-> lower_char(s[i])]

\* s[k:] with a Python (0-based) index k
slice_from(s, k) == SubSeq(s, k + 1, Len(s))

\* str.strip()
RECURSIVE lstrip(_)
lstrip(s) == IF s # <<>> /\ IsSpace(Head(s)) THEN lstrip(Tail(s)) ELSE s
RECURSIVE rstrip(_)
rstrip(s) == IF s # <<>> /\ IsSpace(s[Len(s)]) THEN rstrip(SubSeq(s, 1, Len(s) - 1)) ELSE s
strip(s) == rstrip(lstrip(s))

\* str.startswith(prefix)
startswith(s, prefix) == Len(s) >= Len(prefix) /\ SubSeq(s, 1, Len(prefix)) = prefix

\* str.find(c) for a one-character c: the Python index of its first occurrence, or -1
find(s, c) ==
    IF \E i \in DOMAIN s : s[i] = c
    THEN (CHOOSE i \in DOMAIN s : s[i] = c /\ \A j \in 1..(i - 1) : s[j] # c) - 1
    ELSE -1

\* str.split(sep) for a one-character sep: "".split(",") is [""]
RECURSIVE split(_, _)
split(s, sep) ==
    LET k == find(s, sep) IN
    IF k = -1 THEN <<s>>
    ELSE <<SubSeq(s, 1, k)>> \o split(slice_from(s, k + 1), sep)

\* str.split(): the maximal runs of non-whitespace characters
RECURSIVE split_ws(_)
split_ws(s) ==
    LET t == lstrip(s) IN
    IF t = <<>> THEN <<>>
    ELSE LET n == IF \E i \in DOMAIN t : IsSpace(t[i])
                  THEN (CHOOSE i \in DOMAIN t :
                            IsSpace(t[i]) /\ \A j \in 1..(i - 1) : ~IsSpace(t[j])) - 1
                  ELSE Len(t)
         IN <<SubSeq(t, 1, n)>> \o split_ws(slice_from(t, n))

\* sep.join(parts)
RECURSIVE join(_, _)
join(sep, parts) ==
    IF parts = <<>> THEN <<>>
    ELSE IF Len(parts) = 1 THEN parts[1]
    ELSE parts[1] \o sep \o join(sep, Tail(parts))

\* str(n) for n >= 0
RECURSIVE str(_)
str(n) == IF n < 10 THEN <<Digits[n + 1]>> ELSE str(n \div 10) \o <<Digits[(n % 10) + 1]>>

\* str.zfill(width) of a string without a sign
RECURSIVE zfill(_, _)
zfill(s, width) == IF Len(s) >= width THEN s ELSE zfill(<<"0">> \o s, width)

\* int(s): the value of a decimal string, ValueError otherwise (the model's strings
\* carry no sign and no underscore)
RECURSIVE int_value(_)
int_value(s) == IF s = <<>> THEN 0 ELSE 10 * int_value(SubSeq(s, 1, Len(s) - 1)) + DigitVal(s[Len(s)])
int(s) ==
    LET t == strip(s) IN
    IF t # <<>> /\ \A i \in DOMAIN t : IsDigit(t[i])
    THEN [exc |-> "", val |-> int_value(t)]
    ELSE [exc |-> "ValueError", val |-> 0]

\* the comparison of sorted() on strings: lexicographic by code point
RECURSIVE str_less(_, _)
str_less(a, b) ==
    IF b = <<>> THEN FALSE
    ELSE IF a = <<>> THEN TRUE
    ELSE IF Head(a) # Head(b) THEN Ord(Head(a)) < Ord(Head(b))
    ELSE str_less(Tail(a), Tail(b))

(***************************************************************************)
(* Dictionaries: sequences of <<key, value>> pairs in insertion order.     *)
(***************************************************************************)
keys(d) == [i \in DOMAIN d |-> d[i][1]]
has_key(d, k) == \E i \in DOMAIN d : d[i][1] = k
get(d, k) == d[CHOOSE i \in DOMAIN d : d[i][1] = k][2]
\* d[k] = v
put(d, k, v) ==
    IF has_key(d, k)
    THEN [i \in DOMAIN d |-> IF d[i][1] = k THEN <<k, v>> ELSE d[i]]
    ELSE Append(d, <<k, v>>)

\* sorted(xs, key=...): a stable insertion sort of <<key, x>> pairs by their string key
RECURSIVE insert_sorted(_, _)
insert_sorted(sorted_pairs, p) ==
    IF sorted_pairs = <<>> THEN <<p>>
    ELSE IF str_less(p[1], Head(sorted_pairs)[1])
         THEN <<p>> \o sorted_pairs
         ELSE <<Head(sorted_pairs)>> \o insert_sorted(Tail(sorted_pairs), p)
RECURSIVE sort_pairs(_)
sort_pairs(ps) ==
    IF ps = <<>> THEN <<>>
    ELSE insert_sorted(sort_pairs(SubSeq(ps, 1, Len(ps) - 1)), ps[Len(ps)])
\* sorted(xs) where line 56 has sorted(xs, key=lambda x: x.lower())
sorted_without_key(xs) ==
    LET ps == sort_pairs([i \in DOMAIN xs |-> <<xs[i], xs[i]>>])
    IN [i \in DOMAIN ps |-> ps[i][2]]
\* sorted(xs, key=lambda x: x.lower())
sorted_lower(xs) ==
    LET ps == sort_pairs([i \in DOMAIN xs |-> <<lower(xs[i]), xs[i]>>])
    IN [i \in DOMAIN ps |-> ps[i][2]]
\* sorted(xs)
sorted(xs) ==
    LET ps == sort_pairs([i \in DOMAIN xs |-> <<xs[i], xs[i]>>])
    IN [i \in DOMAIN ps |-> ps[i][2]]

(***************************************************************************)
(* Module constants (lines 16-37).                                         *)
(***************************************************************************)
\* FIELDS.keys(), in insertion order
FIELDS_keys == <<<<"N","O","T","I","F","I","C","A","T","I","O","N"," ","T","Y","P","E">>, <<"S","E","R","V","I","C","E">>, <<"H","O","S","T">>, <<"A","D","D","R","E","S","S">>, <<"S","T","A","T","E">>,
                 <<"D","A","T","E","/","T","I","M","E">>, <<"A","D","D","I","T","I","O","N","A","L"," ","I","N","F","O">>>>
\* FIELDS: the position of each field in a row (1-based here, 0-based in the code)
FIELDS == [f \in {FIELDS_keys[i] : i \in DOMAIN FIELDS_keys} |->
              CHOOSE i \in DOMAIN FIELDS_keys : FIELDS_keys[i] = f]
\* COMPUTE_PATTERN = "n0\d\d\d.[a-z0-9]+$", atom by atom
COMPUTE_PATTERN == <<"n", "0", "\\d", "\\d", "\\d", ".", "[a-z0-9]+", "$">>
NODE_NUM_DIGITS == 4
SLURM_CATEGORIES == << <<"HW", <<"H","a","r","d","w","a","r","e">>>>, <<"NHC", <<"N","H","C">>>>, <<"SW", <<"S","o","f","t","w","a","r","e">>>> >>

(***************************************************************************)
(* re.search(re.compile(COMPUTE_PATTERN), s).                              *)
(***************************************************************************)
\* one single-character atom of the pattern against one character
atom_matches(atom, c) ==
    CASE atom = "\\d" -> IsDigit(c)
      [] atom = "."   -> c # "\n"
      [] OTHER        -> c = atom
\* the class [a-z0-9]
in_class(c) == c \in Range(LowerCase) \cup Range(Digits)
\* the positions "$" matches at: the end of s, and just before a final newline
end_positions(s) == {Len(s)} \cup (IF s # <<>> /\ s[Len(s)] = "\n" THEN {Len(s) - 1} ELSE {})
\* a match of pattern that begins at character i of s
match_at(pattern, s, i) ==
    LET n == Len(pattern) - 2 IN     \* the single-character atoms before "[a-z0-9]+" and "$"
    \E e \in end_positions(s) :
        /\ i + n <= e
        /\ \A k \in 1..n : atom_matches(pattern[k], s[i + k - 1])
        /\ \A k \in (i + n)..e : in_class(s[k])
re_search(pattern, s) == \E i \in DOMAIN s : match_at(pattern, s, i)

(***************************************************************************)
(* get_node_list_string (lines 179-211).                                   *)
(***************************************************************************)
\* str_form without the zero padding
str_form_unpadded(number) == <<"n">> \o str(number)
\* str_form (line 193)
str_form(number) == <<"n">> \o zfill(str(number), NODE_NUM_DIGITS)

\* get_consecutive_string (lines 187-197): consecutive[0] of the empty tuple raises
get_consecutive_string(consecutive) ==
    IF consecutive = <<>> THEN [exc |-> "IndexError", val |-> <<>>]
    ELSE IF consecutive[1] = consecutive[2]
         THEN [exc |-> "", val |-> str_form(consecutive[1])]
         ELSE [exc |-> "", val |-> join(<<"-">>, <<str_form(consecutive[1]),
                                                str_form(consecutive[2])>>)]

\* sorted(list(set(node_list))) (line 200)
RECURSIVE sorted_set(_)
sorted_set(numbers) ==
    IF numbers = {} THEN <<>>
    ELSE LET least == CHOOSE n \in numbers : \A m \in numbers : n <= m
         IN <<least>> \o sorted_set(numbers \ {least})

\* the loop of lines 202-209 over the rest of node_list
RECURSIVE node_list_loop(_, _, _)
node_list_loop(rest, consecutive, node_list_entries) ==
    IF rest = <<>>
    THEN [consecutive |-> consecutive, node_list_entries |-> node_list_entries]
    ELSE LET node_number == Head(rest) IN
         IF consecutive = <<>>
         THEN node_list_loop(Tail(rest), <<node_number, node_number>>, node_list_entries)
         ELSE IF node_number = consecutive[2] + 1
         THEN node_list_loop(Tail(rest), <<consecutive[1], node_number>>, node_list_entries)
         ELSE node_list_loop(Tail(rest), <<node_number, node_number>>,
                             Append(node_list_entries,
                                    get_consecutive_string(consecutive).val))

get_node_list_string(nodes) ==
    LET swept == node_list_loop(sorted_set(Range(nodes)), <<>>, <<>>)
        last == get_consecutive_string(swept.consecutive)        \* line 210
    IN IF last.exc # "" THEN [exc |-> last.exc, val |-> <<>>]
       ELSE [exc |-> "", val |-> join(<<","," ">>, Append(swept.node_list_entries, last.val))]

(***************************************************************************)
(* get_nodes_by_cluster (lines 162-177).                                   *)
(***************************************************************************)
RECURSIVE nodes_by_cluster_loop(_, _)
nodes_by_cluster_loop(rows, clusters) ==
    IF rows = <<>> THEN [exc |-> "", val |-> clusters]
    ELSE LET h == Head(rows)[FIELDS[<<"H","O","S","T">>]] IN
         IF re_search(COMPUTE_PATTERN, h)
         THEN LET parts == split(h, ".")
                  fields == [i \in DOMAIN parts |-> strip(parts[i])]
              IN IF Len(fields) # 2                  \* number, cluster = [...] (line 172)
                 THEN [exc |-> "ValueError", val |-> clusters]
                 ELSE LET integer == int(slice_from(fields[1], 1))     \* line 173
                          cluster == fields[2]
                          before == IF has_key(clusters, cluster)
                                    THEN get(clusters, cluster) ELSE <<>>
                      IN IF integer.exc # ""
                         THEN [exc |-> integer.exc, val |-> clusters]
                         ELSE nodes_by_cluster_loop(Tail(rows),
                                  put(clusters, cluster, Append(before, integer.val)))
         ELSE nodes_by_cluster_loop(Tail(rows), clusters)
\* get_nodes_by_cluster with one list for all clusters, under the first cluster's name
RECURSIVE all_nodes(_)
all_nodes(clusters) ==
    IF clusters = <<>> THEN <<>> ELSE Head(clusters)[2] \o all_nodes(Tail(clusters))
get_nodes_by_cluster_merged(rows) ==
    LET by_cluster == nodes_by_cluster_loop(rows, <<>>)
    IN IF by_cluster.exc # "" \/ by_cluster.val = <<>> THEN by_cluster
       ELSE [exc |-> "", val |-> << <<by_cluster.val[1][1], all_nodes(by_cluster.val)>> >>]
get_nodes_by_cluster(rows) == nodes_by_cluster_loop(rows, <<>>)

(***************************************************************************)
(* The partitioning functions (lines 213-282).                             *)
(***************************************************************************)
RECURSIVE host_type_loop(_, _, _)
host_type_loop(rows, compute, other) ==
    IF rows = <<>> THEN << <<"COMPUTE", compute>>, <<"OTHER", other>> >>
    ELSE LET row == Head(rows) IN
         IF re_search(COMPUTE_PATTERN, row[FIELDS[<<"H","O","S","T">>]])
         THEN host_type_loop(Tail(rows), Append(compute, row), other)
         ELSE host_type_loop(Tail(rows), compute, Append(other, row))
get_rows_by_host_type(rows) == host_type_loop(rows, <<>>, <<>>)

\* get_rows_by_notification_type with "if" where line 240 has "elif": a PROBLEM row
\* falls through to the else branch as well
RECURSIVE notification_type_loop_no_elif(_, _, _, _)
notification_type_loop_no_elif(rows, problem, recovery, other) ==
    IF rows = <<>>
    THEN << <<"PROBLEM", problem>>, <<"RECOVERY", recovery>>, <<"OTHER", other>> >>
    ELSE LET row == Head(rows)
             notification_type == row[FIELDS[<<"N","O","T","I","F","I","C","A","T","I","O","N"," ","T","Y","P","E">>]]
         IN notification_type_loop_no_elif(
                Tail(rows),
                IF notification_type = <<"P","R","O","B","L","E","M">> THEN Append(problem, row) ELSE problem,
                IF notification_type = <<"R","E","C","O","V","E","R","Y">> THEN Append(recovery, row) ELSE recovery,
                IF notification_type = <<"R","E","C","O","V","E","R","Y">> THEN other ELSE Append(other, row))
get_rows_by_notification_type_no_elif(rows) ==
    notification_type_loop_no_elif(rows, <<>>, <<>>, <<>>)

RECURSIVE notification_type_loop(_, _, _, _)
notification_type_loop(rows, problem, recovery, other) ==
    IF rows = <<>>
    THEN << <<"PROBLEM", problem>>, <<"RECOVERY", recovery>>, <<"OTHER", other>> >>
    ELSE LET row == Head(rows)
             notification_type == row[FIELDS[<<"N","O","T","I","F","I","C","A","T","I","O","N"," ","T","Y","P","E">>]]
         IN IF notification_type = <<"P","R","O","B","L","E","M">>
            THEN notification_type_loop(Tail(rows), Append(problem, row), recovery, other)
            ELSE IF notification_type = <<"R","E","C","O","V","E","R","Y">>
            THEN notification_type_loop(Tail(rows), problem, Append(recovery, row), other)
            ELSE notification_type_loop(Tail(rows), problem, recovery, Append(other, row))
\* get_rows_by_notification_type with a test on line 238 that RECOVERY rows pass as well
get_rows_by_notification_type_recovery_too(rows) ==
    << <<"PROBLEM", SelectSeq(rows, LAMBDA row :
                        row[FIELDS[<<"N","O","T","I","F","I","C","A","T","I","O","N"," ","T","Y","P","E">>]] \in {<<"P","R","O","B","L","E","M">>, <<"R","E","C","O","V","E","R","Y">>})>>,
       <<"RECOVERY", <<>> >>,
       <<"OTHER", get(notification_type_loop(rows, <<>>, <<>>, <<>>), "OTHER")>> >>
get_rows_by_notification_type(rows) == notification_type_loop(rows, <<>>, <<>>, <<>>)

RECURSIVE service_loop(_, _, _)
service_loop(rows, slurm, other) ==
    IF rows = <<>> THEN << <<"SLURM", slurm>>, <<"OTHER", other>> >>
    ELSE LET row == Head(rows) IN
         IF row[FIELDS[<<"S","E","R","V","I","C","E">>]] = <<"S","L","U","R","M">>
         THEN service_loop(Tail(rows), Append(slurm, row), other)
         ELSE service_loop(Tail(rows), slurm, Append(other, row))
get_rows_by_service(rows) == service_loop(rows, <<>>, <<>>)

\* SLURM_CATEGORIES[key] + ":"
category_prefix(key) == get(SLURM_CATEGORIES, key) \o <<":">>

RECURSIVE slurm_category_loop(_, _, _, _, _)
slurm_category_loop(rows, hardware, nhc, software, other) ==
    IF rows = <<>>
    THEN << <<"HW", hardware>>, <<"NHC", nhc>>, <<"SW", software>>, <<"OTHER", other>> >>
    ELSE LET row == Head(rows)
             additional_info == row[FIELDS[<<"A","D","D","I","T","I","O","N","A","L"," ","I","N","F","O">>]]
         IN IF row[FIELDS[<<"S","E","R","V","I","C","E">>]] = <<"S","L","U","R","M">>
            THEN IF startswith(additional_info, category_prefix("HW"))
                 THEN slurm_category_loop(Tail(rows), Append(hardware, row), nhc, software, other)
                 ELSE IF startswith(additional_info, category_prefix("NHC"))
                 THEN slurm_category_loop(Tail(rows), hardware, Append(nhc, row), software, other)
                 ELSE IF startswith(additional_info, category_prefix("SW"))
                 THEN slurm_category_loop(Tail(rows), hardware, nhc, Append(software, row), other)
                 ELSE slurm_category_loop(Tail(rows), hardware, nhc, software, Append(other, row))
            ELSE slurm_category_loop(Tail(rows), hardware, nhc, software, other)
get_rows_by_slurm_category(rows) == slurm_category_loop(rows, <<>>, <<>>, <<>>, <<>>)

(***************************************************************************)
(* get_rows_by_slurm_reason (lines 284-313).                               *)
(***************************************************************************)
\* slurm_reason without line 301, the collapse of the whitespace runs
slurm_reason_uncollapsed(additional_info) ==
    IF \/ startswith(additional_info, category_prefix("HW"))
       \/ startswith(additional_info, category_prefix("NHC"))
       \/ startswith(additional_info, category_prefix("SW"))
    THEN strip(slice_from(additional_info, find(additional_info, ":") + 1))
    ELSE strip(additional_info)

\* the reason of one row (lines 294-301)
slurm_reason(additional_info) ==
    LET reason ==
            IF \/ startswith(additional_info, category_prefix("HW"))
               \/ startswith(additional_info, category_prefix("NHC"))
               \/ startswith(additional_info, category_prefix("SW"))
            THEN strip(slice_from(additional_info, find(additional_info, ":") + 1))
            ELSE strip(additional_info)
    IN join(<<" ">>, split_ws(reason))

\* the first loop (lines 292-304): reasons[reason.lower()] is a list of (reason, row)
RECURSIVE reasons_loop(_, _)
reasons_loop(rows, reasons) ==
    IF rows = <<>> THEN reasons
    ELSE LET row == Head(rows) IN
         IF row[FIELDS[<<"S","E","R","V","I","C","E">>]] = <<"S","L","U","R","M">>
         THEN LET reason == slurm_reason(row[FIELDS[<<"A","D","D","I","T","I","O","N","A","L"," ","I","N","F","O">>]])
                  before == IF has_key(reasons, lower(reason))
                            THEN get(reasons, lower(reason)) ELSE <<>>
              IN reasons_loop(Tail(rows),
                              put(reasons, lower(reason), Append(before, <<reason, row>>)))
         ELSE reasons_loop(Tail(rows), reasons)

\* new_key taken from the last pair instead of the first
new_key_of_last(pairs) == pairs[Len(pairs)][1]
\* new_key = pairs[0][0] (line 308)
new_key_of(pairs) == pairs[1][1]

\* the second loop (lines 305-312) over the rest of reasons.keys()
RECURSIVE output_reasons_loop(_, _, _)
output_reasons_loop(rest, reasons, output) ==
    IF rest = <<>> THEN output
    ELSE LET pairs == get(reasons, Head(rest))
             new_key == new_key_of(pairs)
             before == IF has_key(output, new_key) THEN get(output, new_key) ELSE <<>>
         IN output_reasons_loop(Tail(rest), reasons,
                put(output, new_key, before \o [i \in DOMAIN pairs |-> pairs[i][2]]))

get_rows_by_slurm_reason(rows) ==
    LET reasons == reasons_loop(rows, <<>>)
    IN output_reasons_loop(keys(reasons), reasons, <<>>)

(***************************************************************************)
(* The renderers (lines 39-152).  A rendered document is the sequence of   *)
(* the pieces the code concatenates, one piece per string expression: the  *)
(* literal text with %s where a value is spliced in, and the values.  A    *)
(* call that raises leaves a piece named after the exception where the     *)
(* call stood; a document with such a piece was never returned: the        *)
(* function raised its first exception instead.                            *)
(* prettify_html (lxml's parse and pretty-print) is not modelled: the      *)
(* markup document is the string handed to it.                             *)
(***************************************************************************)
piece(lit, args) == [lit |-> lit, args |-> args]
ok(val) == [exc |-> "", val |-> val]
Exceptions == {"IndexError", "ValueError"}
raised(exception) == <<piece(exception, <<>>)>>
\* what a function that built these pieces returned or raised
returned(pieces) ==
    IF \E i \in DOMAIN pieces : pieces[i].lit \in Exceptions
    THEN [exc |-> pieces[CHOOSE i \in DOMAIN pieces :
                             /\ pieces[i].lit \in Exceptions
                             /\ \A j \in 1..(i - 1) : pieces[j].lit \notin Exceptions].lit,
          val |-> <<>>]
    ELSE ok(pieces)

\* lines 62-63, given what get_node_list_string(clusters[cluster]) returned
html_cluster(cluster, nodes) ==
    IF nodes.exc # "" THEN raised(nodes.exc)
    ELSE <<piece("<b>%s</b>: %s", <<cluster, nodes.val>>), piece("<br>", <<>>)>>

\* lines 61-63 over the rest of sorted(clusters.keys())
RECURSIVE html_clusters_loop(_, _)
html_clusters_loop(rest, clusters) ==
    IF rest = <<>> THEN <<>>
    ELSE html_cluster(Head(rest), get_node_list_string(get(clusters, Head(rest))))
         \o html_clusters_loop(Tail(rest), clusters)

\* lines 57-65, given what get_nodes_by_cluster(reasons[reason]) returned
html_reason(reason, clusters) ==
    IF clusters.exc # "" THEN raised(clusters.exc)
    ELSE <<piece("<tr>", <<>>), piece("<td><b>%s</b></td>", <<reason>>), piece("<td>", <<>>)>>
         \o html_clusters_loop(sorted(keys(clusters.val)), clusters.val)
         \o <<piece("</td>", <<>>), piece("</tr>", <<>>)>>

\* lines 56-65 over the rest of sorted(reasons.keys(), key=lambda x: x.lower())
RECURSIVE html_reasons_loop(_, _)
html_reasons_loop(rest, reasons) ==
    IF rest = <<>> THEN <<>>
    ELSE html_reason(Head(rest), get_nodes_by_cluster(get(reasons, Head(rest))))
         \o html_reasons_loop(Tail(rest), reasons)

\* lines 48-55, given what get_rows_by_slurm_reason(slurm_rows[category]) returned
html_category(category, reasons) ==
    <<piece("<tr>", <<>>),
      IF has_key(SLURM_CATEGORIES, category)
      THEN piece("<th colspan=\"2\">%s Issues</th>", <<get(SLURM_CATEGORIES, category)>>)
      ELSE piece("<th colspan=\"2\">Other Issues</th>", <<>>),
      piece("</tr>", <<>>)>>
    \o html_reasons_loop(sorted_lower(keys(reasons)), reasons)

\* lines 47-65 over the rest of slurm_rows.keys()
RECURSIVE html_categories_loop(_, _)
html_categories_loop(rest, by_category) ==
    IF rest = <<>> THEN <<>>
    ELSE html_category(Head(rest), get_rows_by_slurm_reason(get(by_category, Head(rest))))
         \o html_categories_loop(Tail(rest), by_category)

digest_slurm_problems_html(by_category) ==
    <<piece("<h2>SLURM Problems</h2>", <<>>), piece("<table border=\"1\">", <<>>)>>
    \o html_categories_loop(keys(by_category), by_category)
    \o <<piece("</table>", <<>>)>>

\* lines 87-88, given what get_node_list_string(clusters[cluster]) returned
text_cluster(cluster, nodes) ==
    IF nodes.exc # "" THEN raised(nodes.exc)
    ELSE <<piece("\t\t\t%s: %s", <<cluster, nodes.val>>), piece("\n", <<>>)>>

\* lines 86-88 over the rest of sorted(clusters.keys())
RECURSIVE text_clusters_loop(_, _)
text_clusters_loop(rest, clusters) ==
    IF rest = <<>> THEN <<>>
    ELSE text_cluster(Head(rest), get_node_list_string(get(clusters, Head(rest))))
         \o text_clusters_loop(Tail(rest), clusters)

\* text_reason with clusters.keys() where line 86 has sorted(clusters.keys())
text_reason_unsorted(reason, clusters) ==
    IF clusters.exc # "" THEN raised(clusters.exc)
    ELSE <<piece("\t\t%s\n", <<reason>>)>>
         \o text_clusters_loop(keys(clusters.val), clusters.val)

\* lines 84-88, given what get_nodes_by_cluster(reasons[reason]) returned
text_reason(reason, clusters) ==
    IF clusters.exc # "" THEN raised(clusters.exc)
    ELSE <<piece("\t\t%s\n", <<reason>>)>>
         \o text_clusters_loop(sorted(keys(clusters.val)), clusters.val)

\* lines 83-88 over the rest of sorted(reasons.keys(), key=lambda x: x.lower())
RECURSIVE text_reasons_loop(_, _)
text_reasons_loop(rest, reasons) ==
    IF rest = <<>> THEN <<>>
    ELSE text_reason(Head(rest), get_nodes_by_cluster(get(reasons, Head(rest))))
         \o text_reasons_loop(Tail(rest), reasons)

\* lines 77-82, given what get_rows_by_slurm_reason(slurm_rows[category]) returned
text_category(category, reasons) ==
    <<IF has_key(SLURM_CATEGORIES, category)
      THEN piece("\n\t%s Issues\n", <<get(SLURM_CATEGORIES, category)>>)
      ELSE piece("\tOther Issues\n", <<>>)>>
    \o text_reasons_loop(sorted_lower(keys(reasons)), reasons)

\* lines 76-88 over the rest of slurm_rows.keys()
RECURSIVE text_categories_loop(_, _)
text_categories_loop(rest, by_category) ==
    IF rest = <<>> THEN <<>>
    ELSE text_category(Head(rest), get_rows_by_slurm_reason(get(by_category, Head(rest))))
         \o text_categories_loop(Tail(rest), by_category)

digest_slurm_problems_text(by_category) ==
    <<piece("\nSLURM Problems\n", <<>>)>>
    \o text_categories_loop(keys(by_category), by_category)

\* phrases (lines 100 and 139)
phrases == <<<<" ","n","e","w"," ","p","r","o","b","l","e","m","s",":">>, <<" ","n","e","w"," ","r","e","c","o","v","e","r","i","e","s",":">>, <<" ","o","t","h","e","r"," ","n","e","w"," ","c","h","a","n","g","e","s",":">>>>

\* the rows of one raw table (lines 119-123)
RECURSIVE html_raw_rows(_)
html_raw_rows(rows) ==
    IF rows = <<>> THEN <<>>
    ELSE <<piece("<tr>", <<>>)>>
         \o [j \in DOMAIN FIELDS_keys |-> piece("<td>%s</td>", <<Head(rows)[j]>>)]
         \o <<piece("</tr>", <<>>)>>
         \o html_raw_rows(Tail(rows))

\* one pass of the loop of lines 112-125
html_raw_table(rows, i) ==
    <<piece("<p>There are %s%s</p>", <<str(Len(rows)), phrases[i]>>),
      piece("<table>", <<>>), piece("<tr>", <<>>)>>
    \o [j \in DOMAIN FIELDS_keys |-> piece("<th>%s</th>", <<FIELDS_keys[j]>>)]
    \o <<piece("</tr>", <<>>)>>
    \o html_raw_rows(rows)
    \o <<piece("</table>", <<>>)>>

get_digest_html(problem, recovery, other) ==
    returned(
        <<piece("<html>", <<>>), piece("<head></head>", <<>>), piece("<body>", <<>>),
          piece("<h1>SLURM Digest</h1>", <<>>), piece("<hr>", <<>>)>>
        \o digest_slurm_problems_html(
               get_rows_by_slurm_category(get(get_rows_by_service(problem), "SLURM")))
        \o <<piece("<hr>", <<>>), piece("<h2>Raw Output</h2>", <<>>)>>
        \o html_raw_table(problem, 1)
        \o html_raw_table(recovery, 2)
        \o html_raw_table(other, 3)
        \o <<piece("</body>", <<>>), piece("</html>", <<>>)>>)

\* one pass of the loop of lines 146-151
text_raw_table(rows, i) ==
    <<piece("\nThere are %s%s\n", <<str(Len(rows)), phrases[i]>>),
      piece("%s\n", <<join(<<","," ">>, FIELDS_keys)>>)>>
    \o [k \in DOMAIN rows |-> piece("%s\n", <<join(<<","," ">>, rows[k])>>)]

get_digest_text(problem, recovery, other) ==
    returned(
        <<piece("SLURM Digest\n", <<>>)>>
        \o digest_slurm_problems_text(
               get_rows_by_slurm_category(get(get_rows_by_service(problem), "SLURM")))
        \o <<piece("\nRaw Output\n", <<>>)>>
        \o text_raw_table(problem, 1)
        \o text_raw_table(recovery, 2)
        \o text_raw_table(other, 3))

(***************************************************************************)
(* parse_change_file (lines 315-331) over the lines of the file.           *)
(***************************************************************************)
RECURSIVE parse_lines(_, _)
parse_lines(lines, parsed) ==
    IF lines = <<>> THEN ok(parsed)
    ELSE LET field_values == split(Head(lines), ",") IN
         IF \E i \in DOMAIN FIELDS_keys : FIELDS[FIELDS_keys[i]] > Len(field_values)
         THEN [exc |-> "IndexError", val |-> <<>>]          \* field_values[FIELDS[field]]
         ELSE parse_lines(Tail(lines),
                  Append(parsed, [i \in DOMAIN FIELDS_keys |->
                                     strip(field_values[FIELDS[FIELDS_keys[i]]])]))
parse_change_file(lines) == parse_lines(lines, <<>>)

(***************************************************************************)
(* The change files of the model: every sequence of at most MaxLines of    *)
(* these lines, and the missing file.                                      *)
(***************************************************************************)
Lines == {
    <<"P","R","O","B","L","E","M",",","S","L","U","R","M",",","n","0","0","1","0",".","c","l","u","s","t","e","r","A",",",",","D","O","W","N",",","t","1",",","H","a","r","d","w","a","r","e",":"," ","F","a","n"," ","f","a","i","l","u","r","e","\n">>,
    <<"P","R","O","B","L","E","M",",","S","L","U","R","M",",","n","0","0","1","1",".","c","l","u","s","t","e","r","A",",",",","D","O","W","N",",","t","2",",","H","a","r","d","w","a","r","e",":"," ","f","a","n"," ","f","a","i","l","u","r","e","\n">>,
    <<"P","R","O","B","L","E","M",",","S","L","U","R","M",",","n","0","0","1","0",".","l","r","3",",",",","D","O","W","N",",","t","1",",","H","a","r","d","w","a","r","e",":"," ","F","a","n"," ","f","a","i","l","u","r","e","\n">>,
    <<"P","R","O","B","L","E","M",","," ","S","L","U","R","M",","," ","n","0","0","1","1",".","l","r","3",","," ",","," ","D","O","W","N",","," ","t","2",","," ","H","a","r","d","w","a","r","e",":"," "," ","f","a","n"," "," "," ","f","a","i","l","u","r","e","\n">>,
    <<"P","R","O","B","L","E","M",",","S","L","U","R","M",",","n","0","0","1","2",".","c","f","1",",",",","D","O","W","N",",","t","3",",","N","H","C",":"," ","c","h","e","c","k"," ","f","a","i","l","e","d","\n">>,
    <<"P","R","O","B","L","E","M",",","S","L","U","R","M",",","n","0","0","1","3",".","c","f","1",",",",","D","O","W","N",",","t","4",",","S","o","f","t","w","a","r","e",":"," ","p","a","n","i","c","\n">>,
    <<"P","R","O","B","L","E","M",",","S","L","U","R","M",",","n","0","0","1","4",".","c","f","1",",",",","D","O","W","N",",","t","5",",","N","o","t"," ","r","e","s","p","o","n","d","i","n","g","\n">>,
    <<"R","E","C","O","V","E","R","Y",",","S","L","U","R","M",",","n","0","0","1","0",".","l","r","3",",",",","U","P",",","t","6",",","O","K","\n">>,
    <<"F","L","A","P","P","I","N","G",",","S","L","U","R","M",",","n","0","0","1","0",".","l","r","3",",",",","D","O","W","N",",","t","7",",","f","l","a","p","\n">>,
    <<"P","R","O","B","L","E","M",",","N","F","S",",","n","0","0","1","0",".","l","r","3",",",",","D","O","W","N",",","t","8",",","H","a","r","d","w","a","r","e",":"," ","s","t","a","l","e","\n">>,
    <<"P","R","O","B","L","E","M",",","S","L","U","R","M",",","n","1","2","3","4","5",".","c","l","u","s","t","e","r","B",",",",","D","O","W","N",",","t","9",",","H","a","r","d","w","a","r","e",":"," ","F","a","n"," ","f","a","i","l","u","r","e","\n">>,
    <<"P","R","O","B","L","E","M",",","S","L","U","R","M",",","n","0","0","1","0",".","l","r","3",",",",","D","O","W","N",",","t","1","0","\n">>,
    <<"P","R","O","B","L","E","M",",","S","L","U","R","M",",","n","0","0","1","0",".","l","r","3",",",",","D","O","W","N",",","t","1","1",",","H","a","r","d","w","a","r","e",":"," ","F","a","n",","," ","f","a","i","l","u","r","e","\n">>,
    <<"P","R","O","B","L","E","M",",","S","L","U","R","M",",","n","0","0","1","0","x","l","r","3",",",",","D","O","W","N",",","t","1","2",",","H","a","r","d","w","a","r","e",":"," ","F","a","n"," ","f","a","i","l","u","r","e","\n">>
}

\* the sequences over a set of length at most n
SeqsUpTo(set, n) == UNION {[1..k -> set] : k \in 0..n}

ChangeFiles ==
    {[exists |-> FALSE, lines |-> <<>>]}
    \cup {[exists |-> TRUE, lines |-> ls] : ls \in SeqsUpTo(Lines, MaxLines)}

\* the values of the variables a specification does not use
MainIdle ==
    /\ exc = "" /\ change_file = [exists |-> FALSE, lines |-> <<>>]
    /\ parsed_file = <<>> /\ host_type_rows = <<>> /\ notification_type_rows = <<>>
    /\ service_rows = <<>> /\ slurm_rows = <<>>
    /\ email_html = <<>> /\ email_text = <<>> /\ outbox = <<>>
RangeIdle == node_list = <<>> /\ node_list_string = ok(<<>>)
ReasonIdle == reason_rows = <<>> /\ output_reasons = <<>>
HostIdle == hostname = <<>> /\ host_type = "" /\ cluster_nodes = ok(<<>>)
DigestIdle == digest_rows = <<>> /\ digest_html = ok(<<>>) /\ digest_text = ok(<<>>)
AccountIdle ==
    config_file = [exists |-> FALSE, lines |-> <<>>] /\ new_entry = <<>> /\ errors = <<>>

(***************************************************************************)
(* main() (lines 381-399), statement by statement.                         *)
(***************************************************************************)
Init ==
    /\ pc = "check" /\ exc = ""
    /\ change_file \in ChangeFiles
    /\ parsed_file = <<>> /\ host_type_rows = <<>> /\ notification_type_rows = <<>>
    /\ service_rows = <<>> /\ slurm_rows = <<>>
    /\ email_html = <<>> /\ email_text = <<>> /\ outbox = <<>>
    /\ RangeIdle /\ ReasonIdle /\ HostIdle /\ DigestIdle /\ AccountIdle

\* Main_Check without the test of lines 386-388 on the size of the file
Main_Check_without_size_test ==
    /\ pc = "check"
    /\ pc' = IF ~change_file.exists THEN "exit" ELSE "parse"
    /\ UNCHANGED <<exc, change_file, parsed_file, host_type_rows, notification_type_rows,
                   service_rows, slurm_rows, email_html, email_text, outbox>>
    /\ UNCHANGED <<rangeVars, reasonVars, hostVars, digestVars, accountVars>>

\* lines 383-388: file_exists and os.path.getsize, sys.exit(0) on either
Main_Check ==
    /\ pc = "check"
    /\ pc' = IF ~change_file.exists \/ change_file.lines = <<>> THEN "exit" ELSE "parse"
    /\ UNCHANGED <<exc, change_file, parsed_file, host_type_rows, notification_type_rows,
                   service_rows, slurm_rows, email_html, email_text, outbox>>
    /\ UNCHANGED <<rangeVars, reasonVars, hostVars, digestVars, accountVars>>

\* line 389
Main_Parse ==
    /\ pc = "parse"
    /\ LET parsed == parse_change_file(change_file.lines) IN
       /\ exc' = parsed.exc
       /\ parsed_file' = parsed.val
       /\ pc' = IF parsed.exc # "" THEN "exit" ELSE "partition"
    /\ UNCHANGED <<change_file, host_type_rows, notification_type_rows,
                   service_rows, slurm_rows, email_html, email_text, outbox>>
    /\ UNCHANGED <<rangeVars, reasonVars, hostVars, digestVars, accountVars>>

\* lines 390-394
Main_Partition ==
    /\ pc = "partition"
    /\ host_type_rows' = get_rows_by_host_type(parsed_file)
    /\ notification_type_rows' = get_rows_by_notification_type(get(host_type_rows', "COMPUTE"))
    /\ pc' = "digest"
    /\ UNCHANGED <<exc, change_file, parsed_file,
                   service_rows, slurm_rows, email_html, email_text, outbox>>
    /\ UNCHANGED <<rangeVars, reasonVars, hostVars, digestVars, accountVars>>

problem_rows == get(notification_type_rows, "PROBLEM")
recovery_rows == get(notification_type_rows, "RECOVERY")
other_rows == get(notification_type_rows, "OTHER")

\* lines 395-396, given what the two calls returned; email_text is bound only when
\* get_digest_html returned
Main_Digest_outcome(html, text) ==
    /\ exc' = IF html.exc # "" THEN html.exc ELSE text.exc
    /\ email_html' = html.val
    /\ email_text' = IF html.exc # "" THEN <<>> ELSE text.val
    /\ pc' = IF html.exc # "" \/ text.exc # "" THEN "exit" ELSE "send"

\* lines 395-396; service_rows and slurm_rows are the locals of both get_digest functions
\* (lines 106-107 and 141-142)
Main_Digest ==
    /\ pc = "digest"
    /\ Main_Digest_outcome(get_digest_html(problem_rows, recovery_rows, other_rows),
                           get_digest_text(problem_rows, recovery_rows, other_rows))
    /\ service_rows' = get_rows_by_service(problem_rows)
    /\ slurm_rows' = get_rows_by_slurm_category(get(service_rows', "SLURM"))
    /\ UNCHANGED <<change_file, parsed_file, host_type_rows, notification_type_rows, outbox>>
    /\ UNCHANGED <<rangeVars, reasonVars, hostVars, digestVars, accountVars>>

\* Main_Send with the exception of smtplib caught: main goes on to line 399
Main_Send_caught ==
    /\ pc = "send"
    /\ \/ outbox' = Append(outbox, [html |-> email_html, text |-> email_text])
       \/ outbox' = outbox
    /\ pc' = "truncate"
    /\ UNCHANGED <<exc, change_file, parsed_file, host_type_rows, notification_type_rows,
                   service_rows, slurm_rows, email_html, email_text>>
    /\ UNCHANGED <<rangeVars, reasonVars, hostVars, digestVars, accountVars>>

\* lines 397-398: send_email_html delivers the message, or smtplib raises
Main_Send ==
    /\ pc = "send"
    /\ \/ /\ outbox' = Append(outbox, [html |-> email_html, text |-> email_text])
          /\ pc' = "truncate"
          /\ exc' = exc
       \/ /\ outbox' = outbox
          /\ pc' = "exit"
          /\ exc' = "SMTPException"
    /\ UNCHANGED <<change_file, parsed_file, host_type_rows, notification_type_rows,
                   service_rows, slurm_rows, email_html, email_text>>
    /\ UNCHANGED <<rangeVars, reasonVars, hostVars, digestVars, accountVars>>

\* line 399: open(CHANGE_FILE, "w").close()
Main_Truncate ==
    /\ pc = "truncate"
    /\ change_file' = [exists |-> TRUE, lines |-> <<>>]
    /\ pc' = "exit"
    /\ UNCHANGED <<exc, parsed_file, host_type_rows, notification_type_rows,
                   service_rows, slurm_rows, email_html, email_text, outbox>>
    /\ UNCHANGED <<rangeVars, reasonVars, hostVars, digestVars, accountVars>>

Next ==
    \/ Main_Check
    \/ Main_Parse
    \/ Main_Partition
    \/ Main_Digest
    \/ Main_Send
    \/ Main_Truncate

Spec == Init /\ [][Next]_vars

(***************************************************************************)
(* main() while another process appends event lines to CHANGE_FILE.  main  *)
(* takes no lock on the file: an append can fall between any two of its    *)
(* statements, until main has ended.                                       *)
(***************************************************************************)
WriterLines == {
    <<"P","R","O","B","L","E","M",",","S","L","U","R","M",",","n","0","0","2","0",".","l","r","3",",",",","D","O","W","N",",","t","2","0",",","H","a","r","d","w","a","r","e",":"," ","F","a","n"," ","f","a","i","l","u","r","e","\n">>,
    <<"R","E","C","O","V","E","R","Y",",","S","L","U","R","M",",","n","0","0","1","0",".","l","r","3",",",",","U","P",",","t","2","1",",","O","K","\n">>
}

\* open(CHANGE_FILE, "a") and one line written, by the process that records the events
Writer_Append ==
    /\ pc # "exit"
    /\ Len(change_file.lines) < MaxLines + MaxAppendedLines
    /\ \E line \in WriterLines :
          change_file' = [exists |-> TRUE, lines |-> Append(change_file.lines, line)]
    /\ UNCHANGED <<pc, exc, parsed_file, host_type_rows, notification_type_rows,
                   service_rows, slurm_rows, email_html, email_text, outbox>>
    /\ UNCHANGED <<rangeVars, reasonVars, hostVars, digestVars, accountVars>>

NextConcurrent ==
    \/ Next
    \/ Writer_Append

SpecConcurrent == Init /\ [][NextConcurrent]_vars

(***************************************************************************)
(* get_node_list_string called on a list of node numbers.                  *)
(***************************************************************************)
NodeNumbers == {0, 1, 2, 3, 5, 7, 8, 9, 10, 999, 1000, 9999, 10000}

\* a set of node numbers as a list in descending order
RECURSIVE descending(_)
descending(numbers) ==
    IF numbers = {} THEN <<>>
    ELSE LET greatest == CHOOSE n \in numbers : \A m \in numbers : m <= n
         IN <<greatest>> \o descending(numbers \ {greatest})

NodeLists ==
    SeqsUpTo(NodeNumbers, MaxNodeListLen) \cup {descending(ns) : ns \in SUBSET NodeNumbers}

InitRange ==
    /\ pc = "call"
    /\ MainIdle /\ ReasonIdle /\ HostIdle /\ DigestIdle /\ AccountIdle
    /\ node_list \in NodeLists
    /\ node_list_string = ok(<<>>)

Call_get_node_list_string ==
    /\ pc = "call"
    /\ node_list_string' = get_node_list_string(node_list)
    /\ pc' = "return"
    /\ UNCHANGED <<exc, change_file, parsed_file, host_type_rows, notification_type_rows,
                   service_rows, slurm_rows, email_html, email_text, outbox>>
    /\ UNCHANGED <<node_list, reasonVars, hostVars, digestVars, accountVars>>

NextRange == Call_get_node_list_string

SpecRange == InitRange /\ [][NextRange]_vars

(***************************************************************************)
(* get_rows_by_slurm_reason called on a list of rows.                      *)
(***************************************************************************)
ReasonRows == {
    <<<<"P","R","O","B","L","E","M">>, <<"S","L","U","R","M">>, <<"n","0","0","0","1",".","l","r","3">>, <<>>, <<"D","O","W","N">>, <<"t","1">>, <<"H","a","r","d","w","a","r","e",":"," ","M","e","m","o","r","y"," ","E","r","r","o","r">>>>,
    <<<<"P","R","O","B","L","E","M">>, <<"S","L","U","R","M">>, <<"n","0","0","0","2",".","l","r","3">>, <<>>, <<"D","O","W","N">>, <<"t","2">>, <<"H","a","r","d","w","a","r","e",":"," ","m","e","m","o","r","y"," ","e","r","r","o","r">>>>,
    <<<<"P","R","O","B","L","E","M">>, <<"S","L","U","R","M">>, <<"n","0","0","0","3",".","l","r","3">>, <<>>, <<"D","O","W","N">>, <<"t","3">>, <<"H","a","r","d","w","a","r","e",":"," "," ","M","E","M","O","R","Y","\t","e","r","r","o","r"," ">>>>,
    <<<<"P","R","O","B","L","E","M">>, <<"S","L","U","R","M">>, <<"n","0","0","0","4",".","l","r","3">>, <<>>, <<"D","O","W","N">>, <<"t","4">>, <<"H","a","r","d","w","a","r","e",":"," ","F","a","n"," ","f","a","i","l","u","r","e">>>>,
    <<<<"P","R","O","B","L","E","M">>, <<"S","L","U","R","M">>, <<"n","0","0","0","5",".","c","f","1">>, <<>>, <<"D","O","W","N">>, <<"t","5">>, <<"H","a","r","d","w","a","r","e",":"," ","f","a","n"," ","f","a","i","l","u","r","e">>>>,
    <<<<"P","R","O","B","L","E","M">>, <<"S","L","U","R","M">>, <<"n","0","0","0","6",".","c","f","1">>, <<>>, <<"D","O","W","N">>, <<"t","6">>, <<"m","e","m","o","r","y"," ","e","r","r","o","r">>>>,
    <<<<"P","R","O","B","L","E","M">>, <<"S","L","U","R","M">>, <<"n","0","0","0","7",".","c","f","1">>, <<>>, <<"D","O","W","N">>, <<"t","7">>, <<"N","H","C",":","M","e","m","o","r","y"," ","e","r","r","o","r">>>>,
    <<<<"P","R","O","B","L","E","M">>, <<"N","F","S">>, <<"n","0","0","0","8",".","c","f","1">>, <<>>, <<"D","O","W","N">>, <<"t","8">>, <<"H","a","r","d","w","a","r","e",":"," ","M","e","m","o","r","y"," ","E","r","r","o","r">>>>,
    <<<<"P","R","O","B","L","E","M">>, <<"S","L","U","R","M">>, <<"n","0","0","0","9",".","c","f","1">>, <<>>, <<"D","O","W","N">>, <<"t","9">>, <<"S","o","f","t","w","a","r","e",":"," ","d","i","s","k",":"," "," ","f","u","l","l">>>>,
    <<<<"P","R","O","B","L","E","M">>, <<"S","L","U","R","M">>, <<"n","0","0","1","0",".","c","f","1">>, <<>>, <<"D","O","W","N">>, <<"t","1","0">>, <<"h","a","r","d","w","a","r","e",":"," ","M","e","m","o","r","y"," ","E","r","r","o","r">>>>,
    <<<<"P","R","O","B","L","E","M">>, <<"S","L","U","R","M">>, <<"n","0","0","1","1",".","c","f","1">>, <<>>, <<"D","O","W","N">>, <<"t","1","1">>, <<" ","\t","N","H","C",":"," ","d","i","s","k",":"," ","f","u","l","l">>>>
}

InitReason ==
    /\ pc = "call"
    /\ MainIdle /\ RangeIdle /\ HostIdle /\ DigestIdle /\ AccountIdle
    /\ reason_rows \in SeqsUpTo(ReasonRows, MaxReasonRows)
    /\ output_reasons = <<>>

Call_get_rows_by_slurm_reason ==
    /\ pc = "call"
    /\ output_reasons' = get_rows_by_slurm_reason(reason_rows)
    /\ pc' = "return"
    /\ UNCHANGED <<exc, change_file, parsed_file, host_type_rows, notification_type_rows,
                   service_rows, slurm_rows, email_html, email_text, outbox>>
    /\ UNCHANGED <<rangeVars, reason_rows, hostVars, digestVars, accountVars>>

NextReason == Call_get_rows_by_slurm_reason

SpecReason == InitReason /\ [][NextReason]_vars

(***************************************************************************)
(* The host matcher: get_rows_by_host_type and get_nodes_by_cluster on one *)
(* row with a given host.                                                  *)
(***************************************************************************)
Hosts ==
    {prefix \o <<"n">> \o digits \o separator \o cluster :
        prefix \in {<<>>, <<"x">>},
        digits \in {<<"0","0","0","7">>, <<"0","0","1","0">>, <<"0","9","9","9">>, <<"1","2","3","4">>, <<"1","2","3","4","5">>, <<"0","0","7">>},
        separator \in {<<".">>, <<"x">>, <<>>},
        cluster \in {<<"a">>, <<"l","r","3">>, <<"c","l","u","s","t","e","r","a">>, <<"c","l","u","s","t","e","r","A">>, <<"L","r","3">>, <<"a",".","b">>, <<"a","-","b">>, <<>>}}

row_of_host(h) == <<<<"P","R","O","B","L","E","M">>, <<"S","L","U","R","M">>, h, <<>>, <<"D","O","W","N">>, <<"t","1">>, <<"H","a","r","d","w","a","r","e",":"," ","F","a","n"," ","f","a","i","l","u","r","e">>>>

InitHost ==
    /\ pc = "call"
    /\ MainIdle /\ RangeIdle /\ ReasonIdle /\ DigestIdle /\ AccountIdle
    /\ hostname \in Hosts
    /\ host_type = ""
    /\ cluster_nodes = ok(<<>>)

Call_host_matcher ==
    /\ pc = "call"
    /\ LET by_host_type == get_rows_by_host_type(<<row_of_host(hostname)>>) IN
       host_type' = IF get(by_host_type, "COMPUTE") # <<>> THEN "COMPUTE" ELSE "OTHER"
    /\ cluster_nodes' = get_nodes_by_cluster(<<row_of_host(hostname)>>)
    /\ pc' = "return"
    /\ UNCHANGED <<exc, change_file, parsed_file, host_type_rows, notification_type_rows,
                   service_rows, slurm_rows, email_html, email_text, outbox>>
    /\ UNCHANGED <<rangeVars, reasonVars, hostname, digestVars, accountVars>>

NextHost == Call_host_matcher

SpecHost == InitHost /\ [][NextHost]_vars

(***************************************************************************)
(* get_digest_html and get_digest_text called on a list of problem rows,   *)
(* with no recovery rows and no other rows.                                *)
(***************************************************************************)
DigestRows == {
    <<<<"P","R","O","B","L","E","M">>, <<"S","L","U","R","M">>, <<"n","0","0","0","1",".","l","r","3">>, <<>>, <<"D","O","W","N">>, <<"t","1">>, <<"H","a","r","d","w","a","r","e",":"," ","f","a","n"," ","f","a","i","l","u","r","e">>>>,
    <<<<"P","R","O","B","L","E","M">>, <<"S","L","U","R","M">>, <<"n","0","0","0","2",".","l","r","3">>, <<>>, <<"D","O","W","N">>, <<"t","2">>, <<"H","a","r","d","w","a","r","e",":"," ","F","a","n"," ","f","a","i","l","u","r","e">>>>,
    <<<<"P","R","O","B","L","E","M">>, <<"S","L","U","R","M">>, <<"n","0","0","0","2",".","c","f","1">>, <<>>, <<"D","O","W","N">>, <<"t","3">>, <<"H","a","r","d","w","a","r","e",":"," ","f","a","n"," ","f","a","i","l","u","r","e">>>>,
    <<<<"P","R","O","B","L","E","M">>, <<"S","L","U","R","M">>, <<"n","0","0","0","3",".","l","r","3">>, <<>>, <<"D","O","W","N">>, <<"t","4">>, <<"H","a","r","d","w","a","r","e",":"," ","M","e","m","o","r","y"," ","e","r","r","o","r">>>>,
    <<<<"P","R","O","B","L","E","M">>, <<"S","L","U","R","M">>, <<"n","0","0","0","4",".","c","f","1">>, <<>>, <<"D","O","W","N">>, <<"t","5">>, <<"N","H","C",":"," ","c","h","e","c","k"," ","f","a","i","l","e","d">>>>,
    <<<<"P","R","O","B","L","E","M">>, <<"S","L","U","R","M">>, <<"n","0","0","0","5",".","l","r","3">>, <<>>, <<"D","O","W","N">>, <<"t","6">>, <<"N","o","t"," ","r","e","s","p","o","n","d","i","n","g">>>>,
    <<<<"P","R","O","B","L","E","M">>, <<"S","L","U","R","M">>, <<"n","1","2","3","4","5",".","c","l","u","s","t","e","r","B">>, <<>>, <<"D","O","W","N">>, <<"t","7">>, <<"H","a","r","d","w","a","r","e",":"," ","D","i","s","k"," ","e","r","r","o","r">>>>,
    <<<<"P","R","O","B","L","E","M">>, <<"N","F","S">>, <<"n","0","0","0","6",".","l","r","3">>, <<>>, <<"D","O","W","N">>, <<"t","8">>, <<"H","a","r","d","w","a","r","e",":"," ","s","t","a","l","e">>>>
}

InitDigest ==
    /\ pc = "call"
    /\ MainIdle /\ RangeIdle /\ ReasonIdle /\ HostIdle /\ AccountIdle
    /\ digest_rows \in SeqsUpTo(DigestRows, MaxDigestRows)
    /\ digest_html = ok(<<>>)
    /\ digest_text = ok(<<>>)

Call_get_digest ==
    /\ pc = "call"
    /\ digest_html' = get_digest_html(digest_rows, <<>>, <<>>)
    /\ digest_text' = get_digest_text(digest_rows, <<>>, <<>>)
    /\ pc' = "return"
    /\ UNCHANGED <<exc, change_file, parsed_file, host_type_rows, notification_type_rows,
                   service_rows, slurm_rows, email_html, email_text, outbox>>
    /\ UNCHANGED <<rangeVars, reasonVars, hostVars, digest_rows, accountVars>>

NextDigest == Call_get_digest

SpecDigest == InitDigest /\ [][NextDigest]_vars

(***************************************************************************)
(* src/add_account.py: add_entry (lines 47-106) on a configuration file.   *)
(* The file is the sequence of its lines, each with its line terminator;   *)
(* under fileinput.input(inplace=True) every print() inside the loop       *)
(* appends to the new contents of the file.                                *)
(***************************************************************************)
CLUSTERS == <<<<"[","l","a","w","r","e","n","c","i","u","m","]">>, <<"[","l","r","2","]">>, <<"[","l","r","3","]">>, <<"[","l","r","4","]">>, <<"[","l","r","5","]">>, <<"[","l","r","_","a","m","d","]">>,
              <<"[","l","r","_","b","i","g","m","e","m","]">>, <<"[","l","r","_","m","a","n","y","c","o","r","e","]">>, <<"[","m","a","k","o","]">>, <<"[","m","a","k","o","_","m","a","n","y","c","o","r","e","]">>, <<"[","c","f","1","]">>,
              <<"[","l","r","c","]">>>>
PREFIX_COSTS == << <<<<"a","c","_">>, <<"1",".","0">>>>, <<<<"l","r","_">>, <<"0",".","0">>>>, <<<<"p","c","_">>, <<"0",".","0">>>> >>
ACCOUNT == <<"a","c","c","o","u","n","t","_">>
\* LRC_PATTERN = ACCOUNT + "\d{3,4}=" + "(ac_|lr_|pc_).*?", part by part
LRC_PATTERN == [literal |-> ACCOUNT, fewest_digits |-> 3, most_digits |-> 4, then |-> "=",
                alternatives |-> keys(PREFIX_COSTS)]

\* a match of pattern that begins at character i of s, with n digits
lrc_match_at(pattern, s, i, n) ==
    LET digits_from == i + Len(pattern.literal)
        equals_at == digits_from + n
    IN /\ equals_at <= Len(s)
       /\ SubSeq(s, i, digits_from - 1) = pattern.literal
       /\ \A k \in digits_from..(equals_at - 1) : IsDigit(s[k])
       /\ s[equals_at] = pattern.then
       /\ \E a \in DOMAIN pattern.alternatives :
              startswith(slice_from(s, equals_at), pattern.alternatives[a])
\* re.search(re.compile(LRC_PATTERN), s)
lrc_search(pattern, s) ==
    \E i \in DOMAIN s :
        \E n \in pattern.fewest_digits..pattern.most_digits : lrc_match_at(pattern, s, i, n)

\* s[a:b] with Python indices, a >= 0 and b possibly negative
slice(s, a, b) ==
    LET stop == IF b < 0 THEN (IF Len(s) + b < 0 THEN 0 ELSE Len(s) + b)
                ELSE (IF b > Len(s) THEN Len(s) ELSE b)
    IN SubSeq(s, a + 1, stop)

\* get_account_id (lines 159-169): None when "_" or "=" is the first character
get_account_id(line) ==
    LET start == find(line, "_")
        end == find(line, "=")
    IN IF start = 0 \/ end = 0
       THEN [none |-> TRUE, val |-> <<>>]
       ELSE [none |-> FALSE, val |-> slice(line, start + 1, end)]

\* int(x) where x may be None
int_or_none(x) == IF x.none THEN [exc |-> "TypeError", val |-> 0] ELSE int(x.val)

\* print(x) into the file: the text and the line terminator, line by line
print(x) == LET lines == split(x, "\n") IN [i \in DOMAIN lines |-> lines[i] \o <<"\n">>]

\* the loop of lines 62-103 over the rest of the lines of the file; an uncaught
\* exception leaves the file with the lines printed before it
RECURSIVE add_entry_loop(_, _, _, _, _, _, _)
add_entry_loop(rest, in_cluster, prev_line, errs, out, given, new_account_id) ==
    IF rest = <<>> THEN [exc |-> "", errors |-> errs, lines |-> out]
    ELSE
    LET stripped_line == strip(rstrip(Head(rest))) IN
    IF errs # <<>>
    THEN add_entry_loop(Tail(rest), in_cluster, prev_line, errs,
                        out \o print(stripped_line), given, new_account_id)
    ELSE IF in_cluster
    THEN IF stripped_line # <<>>
         THEN LET entry_account_id == int_or_none(get_account_id(stripped_line))
                  new_id == int(new_account_id)
                  id_difference == entry_account_id.val - new_id.val
              IN IF entry_account_id.exc # ""
                 THEN [exc |-> entry_account_id.exc, errors |-> errs, lines |-> out]
                 ELSE IF new_id.exc # ""
                 THEN [exc |-> new_id.exc, errors |-> errs, lines |-> out]
                 ELSE IF lrc_search(LRC_PATTERN, stripped_line)
                 THEN add_entry_loop(
                          Tail(rest), in_cluster, stripped_line,
                          IF id_difference >= 0
                          THEN Append(errs, <<"ACCOUNT_ID_VALID", new_account_id>>) ELSE errs,
                          out \o print(stripped_line), given, new_account_id)
                 ELSE IF id_difference = 0
                 THEN add_entry_loop(
                          Tail(rest), in_cluster, stripped_line,
                          Append(errs, <<"ACCOUNT_ID_INVALID", new_account_id>>),
                          out \o print(stripped_line), given, new_account_id)
                 ELSE IF id_difference > 0
                 THEN IF ~lrc_search(LRC_PATTERN, prev_line)
                      THEN add_entry_loop(
                               Tail(rest), in_cluster, stripped_line,
                               Append(errs, <<"ACCOUNT_ID_ORDER", new_account_id>>),
                               out \o print(stripped_line), given, new_account_id)
                      ELSE add_entry_loop(
                               Tail(rest), FALSE, stripped_line, errs,
                               out \o print(given) \o print(stripped_line),
                               given, new_account_id)
                 ELSE add_entry_loop(Tail(rest), in_cluster, stripped_line, errs,
                                     out \o print(stripped_line), given, new_account_id)
         ELSE add_entry_loop(Tail(rest), FALSE, stripped_line, errs,
                             out \o print(given \o <<"\n">>), given, new_account_id)
    ELSE add_entry_loop(
             Tail(rest),
             \E c \in DOMAIN CLUSTERS : CLUSTERS[c] = stripped_line,
             IF \E c \in DOMAIN CLUSTERS : CLUSTERS[c] = stripped_line
             THEN stripped_line ELSE prev_line,
             errs, out \o print(stripped_line), given, new_account_id)

\* add_entry (lines 47-106): nothing is done when the file is missing or the entry has
\* no account ID
add_entry(file, given) ==
    LET new_account_id == get_account_id(given) IN
    IF file.exists /\ ~new_account_id.none /\ new_account_id.val # <<>>
    THEN add_entry_loop(file.lines, FALSE, <<>>, <<>>, <<>>, given, new_account_id.val)
    ELSE [exc |-> "", errors |-> <<>>, lines |-> file.lines]

ConfigLines == {
    <<"[","l","r","3","]","\n">>,
    <<"[","c","f","1","]","\n">>,
    <<"[","m","i","s","c","]","\n">>,
    <<"\n">>,
    <<"a","c","c","o","u","n","t","_","0","0","1","=","a","c","_","a",":","1","\n">>,
    <<"a","c","c","o","u","n","t","_","0","0","3","=","x","x","_","c",":","3","\n">>,
    <<"a","c","c","o","u","n","t","_","9","0","0","=","x","x","_","z",":","9","\n">>,
    <<"a","c","c","o","u","n","t","_","0","0","5","=","l","r","_","e",":","5","\n">>
}
ConfigFiles ==
    {[exists |-> FALSE, lines |-> <<>>]}
    \cup {[exists |-> TRUE, lines |-> ls] : ls \in SeqsUpTo(ConfigLines, MaxConfigLines)}
NewEntries == {<<"a","c","c","o","u","n","t","_","0","0","4","=","a","c","_","n","e","w",":","4",":",":","1",".","0">>}

InitAccount ==
    /\ pc = "call"
    /\ MainIdle /\ RangeIdle /\ ReasonIdle /\ HostIdle /\ DigestIdle
    /\ config_file \in ConfigFiles
    /\ new_entry \in NewEntries
    /\ errors = <<>>

Call_add_entry ==
    /\ pc = "call"
    /\ LET done == add_entry(config_file, new_entry) IN
       /\ config_file' = [exists |-> config_file.exists, lines |-> done.lines]
       /\ errors' = done.errors
       /\ exc' = done.exc
    /\ pc' = "return"
    /\ UNCHANGED <<change_file, parsed_file, host_type_rows, notification_type_rows,
                   service_rows, slurm_rows, email_html, email_text, outbox>>
    /\ UNCHANGED <<rangeVars, reasonVars, hostVars, digestVars, new_entry>>

NextAccount == Call_add_entry

SpecAccount == InitAccount /\ [][NextAccount]_vars

(***************************************************************************)
(* Reading a rendered document back: the pieces that are category headers, *)
(* reason entries, cluster entries and raw-dump count lines, in either     *)
(* format.                                                                 *)
(***************************************************************************)
IsCategory(p) == p.lit \in {"\n\t%s Issues\n", "\tOther Issues\n",
                            "<th colspan=\"2\">%s Issues</th>",
                            "<th colspan=\"2\">Other Issues</th>"}
IsReason(p) == p.lit \in {"\t\t%s\n", "<td><b>%s</b></td>"}
IsCluster(p) == p.lit \in {"\t\t\t%s: %s", "<b>%s</b>: %s"}
IsCount(p) == p.lit \in {"\nThere are %s%s\n", "<p>There are %s%s</p>"}
IsRawStart(p) == p.lit \in {"\nRaw Output\n", "<h2>Raw Output</h2>"}
CategoryLabel(p) == IF p.args = <<>> THEN <<"O","t","h","e","r">> ELSE p.args[1]
CategoryLabels == <<<<"H","a","r","d","w","a","r","e">>, <<"N","H","C">>, <<"S","o","f","t","w","a","r","e">>, <<"O","t","h","e","r">>>>
CategoryKeys == <<"HW", "NHC", "SW", "OTHER">>

Least(positions) == CHOOSE i \in positions : \A j \in positions : i <= j
CategoryPositions(doc) == {i \in DOMAIN doc : IsCategory(doc[i])}
\* the first position after category header i that is outside its section
SectionEnd(doc, i) ==
    Least({j \in (i + 1)..Len(doc) : IsCategory(doc[j]) \/ IsRawStart(doc[j])}
          \cup {Len(doc) + 1})
ReasonPositions(doc, i) == {j \in (i + 1)..(SectionEnd(doc, i) - 1) : IsReason(doc[j])}
ReasonEnd(doc, j) ==
    Least({k \in (j + 1)..Len(doc) :
               IsReason(doc[k]) \/ IsCategory(doc[k]) \/ IsRawStart(doc[k])}
          \cup {Len(doc) + 1})
ClusterPositions(doc, j) == {k \in (j + 1)..(ReasonEnd(doc, j) - 1) : IsCluster(doc[k])}
CountPositions(doc) == {i \in DOMAIN doc : IsCount(doc[i])}

\* the number of times x occurs in a sequence
Count(seq, x) == Cardinality({i \in DOMAIN seq : seq[i] = x})
RECURSIVE CountInBuckets(_, _)
CountInBuckets(buckets, x) ==
    IF buckets = <<>> THEN 0
    ELSE Count(Head(buckets)[2], x) + CountInBuckets(Tail(buckets), x)

\* both digests have been rendered by main()
Rendered == pc \in {"send", "truncate"} \/ (pc = "exit" /\ email_text # <<>>)

(***************************************************************************)
(* C1.  At every stage of the partitioning pipeline (host type on all      *)
(* rows, notification type on compute rows, service on problem rows,       *)
(* sub-category on SLURM rows) every row entering the stage is in exactly  *)
(* one output bucket: each row occurs in the buckets together as often as  *)
(* in the input, and never in two different buckets.                       *)
(***************************************************************************)
IsPartition(input, buckets) ==
    /\ \A b \in DOMAIN buckets : Range(buckets[b][2]) \subseteq Range(input)
    /\ \A x \in Range(input) :
          /\ CountInBuckets(buckets, x) = Count(input, x)
          /\ Cardinality({b \in DOMAIN buckets : x \in Range(buckets[b][2])}) = 1

C1_StagesPartition ==
    /\ host_type_rows # <<>> =>
          /\ keys(host_type_rows) = <<"COMPUTE", "OTHER">>
          /\ IsPartition(parsed_file, host_type_rows)
          /\ keys(notification_type_rows) = <<"PROBLEM", "RECOVERY", "OTHER">>
          /\ IsPartition(get(host_type_rows, "COMPUTE"), notification_type_rows)
    /\ service_rows # <<>> =>
          /\ keys(service_rows) = <<"SLURM", "OTHER">>
          /\ IsPartition(problem_rows, service_rows)
          /\ keys(slurm_rows) = CategoryKeys
          /\ IsPartition(get(service_rows, "SLURM"), slurm_rows)

\* all four stages have split two rows, and the last one into two buckets
C1_Witness ==
    /\ pc = "send"
    /\ Len(parsed_file) = 2
    /\ get(host_type_rows, "OTHER") = <<>>
    /\ Len(get(service_rows, "SLURM")) = 2
    /\ get(slurm_rows, "HW") # <<>>
    /\ get(slurm_rows, "OTHER") # <<>>

(***************************************************************************)
(* C2.  End to end: for the rows (PROBLEM, SLURM, n0010.clusterA, "",      *)
(* DOWN, t1, "Hardware: Fan failure") and (PROBLEM, SLURM, n0011.clusterA, *)
(* "", DOWN, t2, "Hardware: fan failure") the Hardware category of the     *)
(* digest holds exactly one reason group, displayed "Fan failure", whose   *)
(* only cluster entry is clusterA with the range "n0010-n0011".            *)
(***************************************************************************)
C2_Rows ==
    << <<<<"P","R","O","B","L","E","M">>, <<"S","L","U","R","M">>, <<"n","0","0","1","0",".","c","l","u","s","t","e","r","A">>, <<>>, <<"D","O","W","N">>, <<"t","1">>, <<"H","a","r","d","w","a","r","e",":"," ","F","a","n"," ","f","a","i","l","u","r","e">>>>,
       <<<<"P","R","O","B","L","E","M">>, <<"S","L","U","R","M">>, <<"n","0","0","1","1",".","c","l","u","s","t","e","r","A">>, <<>>, <<"D","O","W","N">>, <<"t","2">>, <<"H","a","r","d","w","a","r","e",":"," ","f","a","n"," ","f","a","i","l","u","r","e">>>> >>

\* the Hardware section of doc holds the one reason with the one cluster entry
HardwareHoldsOnly(doc, reason, cluster, nodes) ==
    /\ \E i \in CategoryPositions(doc) : CategoryLabel(doc[i]) = <<"H","a","r","d","w","a","r","e">>
    /\ \A i \in CategoryPositions(doc) :
          CategoryLabel(doc[i]) = <<"H","a","r","d","w","a","r","e">> =>
             /\ Cardinality(ReasonPositions(doc, i)) = 1
             /\ \A j \in ReasonPositions(doc, i) :
                   /\ doc[j].args = <<reason>>
                   /\ Cardinality(ClusterPositions(doc, j)) = 1
                   /\ \A k \in ClusterPositions(doc, j) : doc[k].args = <<cluster, nodes>>

C2_EndToEnd ==
    (parsed_file = C2_Rows /\ pc \notin {"check", "parse", "partition", "digest"}) =>
        /\ Rendered
        /\ HardwareHoldsOnly(email_text, <<"F","a","n"," ","f","a","i","l","u","r","e">>, <<"c","l","u","s","t","e","r","A">>, <<"n","0","0","1","0","-","n","0","0","1","1">>)
        /\ HardwareHoldsOnly(email_html, <<"F","a","n"," ","f","a","i","l","u","r","e">>, <<"c","l","u","s","t","e","r","A">>, <<"n","0","0","1","0","-","n","0","0","1","1">>)

\* the same scenario with a lower-case cluster name, which the code's pattern accepts
C2_Rows_lr3 ==
    << <<<<"P","R","O","B","L","E","M">>, <<"S","L","U","R","M">>, <<"n","0","0","1","0",".","l","r","3">>, <<>>, <<"D","O","W","N">>, <<"t","1">>, <<"H","a","r","d","w","a","r","e",":"," ","F","a","n"," ","f","a","i","l","u","r","e">>>>,
       <<<<"P","R","O","B","L","E","M">>, <<"S","L","U","R","M">>, <<"n","0","0","1","1",".","l","r","3">>, <<>>, <<"D","O","W","N">>, <<"t","2">>, <<"H","a","r","d","w","a","r","e",":"," "," ","f","a","n"," "," "," ","f","a","i","l","u","r","e">>>> >>
C2_EndToEnd_lr3 ==
    (parsed_file = C2_Rows_lr3 /\ pc \notin {"check", "parse", "partition", "digest"}) =>
        /\ Rendered
        /\ HardwareHoldsOnly(email_text, <<"F","a","n"," ","f","a","i","l","u","r","e">>, <<"l","r","3">>, <<"n","0","0","1","0","-","n","0","0","1","1">>)
        /\ HardwareHoldsOnly(email_html, <<"F","a","n"," ","f","a","i","l","u","r","e">>, <<"l","r","3">>, <<"n","0","0","1","0","-","n","0","0","1","1">>)
C2_Reached_lr3 == parsed_file = C2_Rows_lr3 /\ pc = "send"

(***************************************************************************)
(* Reading a rendered node list back: its entries, the interval each entry *)
(* denotes, and the node numbers it expands to.                            *)
(***************************************************************************)
\* the entries of "e1, e2, ..."
Entries(string) ==
    IF string = <<>> THEN <<>>
    ELSE LET parts == split(string, ",")
         IN [i \in DOMAIN parts |->
                IF i > 1 /\ parts[i] # <<>> /\ Head(parts[i]) = " "
                THEN Tail(parts[i]) ELSE parts[i]]
\* "n" and then digits only
IsNodeName(name) ==
    /\ Len(name) >= 2
    /\ Head(name) = "n"
    /\ \A i \in 2..Len(name) : IsDigit(name[i])
\* "n" and then exactly NODE_NUM_DIGITS digits
IsPaddedNodeName(name) == IsNodeName(name) /\ Len(name) = 1 + NODE_NUM_DIGITS
\* an entry is one node name or two joined by "-"
IsEntry(entry) ==
    LET names == split(entry, "-")
    IN Len(names) \in {1, 2} /\ \A i \in DOMAIN names : IsNodeName(names[i])
IsPaddedEntry(entry) ==
    LET names == split(entry, "-")
    IN Len(names) \in {1, 2} /\ \A i \in DOMAIN names : IsPaddedNodeName(names[i])
IsRange(entry) == Len(split(entry, "-")) = 2
\* the interval <<start, end>> an entry denotes
Interval(entry) ==
    LET names == split(entry, "-")
    IN <<int_value(Tail(names[1])), int_value(Tail(names[Len(names)]))>>
\* the node numbers a rendered node list denotes
Expand(string) ==
    UNION {Interval(Entries(string)[i])[1]..Interval(Entries(string)[i])[2] :
              i \in DOMAIN Entries(string)}

\* the intervals of a rendered list are ascending, disjoint and maximal, cover exactly
\* the numbers, and an interval is rendered as a range only when start < end
IsCompressionOf(string, numbers) ==
    LET entries == Entries(string)
        intervals == [i \in DOMAIN entries |-> Interval(entries[i])]
    IN /\ \A i \in DOMAIN entries : IsEntry(entries[i])
       /\ \A i \in DOMAIN intervals : intervals[i][1] <= intervals[i][2]
       /\ \A i \in DOMAIN intervals :
             i < Len(intervals) => intervals[i][2] + 1 < intervals[i + 1][1]
       /\ UNION {intervals[i][1]..intervals[i][2] : i \in DOMAIN intervals} = numbers
       /\ \A i \in DOMAIN entries : IsRange(entries[i]) <=> intervals[i][1] < intervals[i][2]

(***************************************************************************)
(* C3.  For any list of node numbers (unordered, possibly with repeats)    *)
(* get_node_list_string produces intervals that are pairwise disjoint,     *)
(* ascending and maximal, whose union is exactly the set of the input      *)
(* numbers, and an interval with start = end is rendered as one node name. *)
(***************************************************************************)
C3_Compression ==
    pc = "return" =>
        /\ node_list_string.exc = ""
        /\ IsCompressionOf(node_list_string.val, Range(node_list))

\* the same for the lists that have at least one element
C3_CompressionOfNonEmpty ==
    (pc = "return" /\ node_list # <<>>) =>
        /\ node_list_string.exc = ""
        /\ IsCompressionOf(node_list_string.val, Range(node_list))
C3_ReachedNonEmpty ==
    /\ pc = "return"
    /\ node_list = <<9, 7, 9>>
    /\ node_list_string = ok(<<"n","0","0","0","7",","," ","n","0","0","0","9">>)

IsSlurmRow(row) == row[FIELDS[<<"S","E","R","V","I","C","E">>]] = <<"S","L","U","R","M">>
CanonicalReason(row) == slurm_reason(row[FIELDS[<<"A","D","D","I","T","I","O","N","A","L"," ","I","N","F","O">>]])
\* the SLURM rows of rows whose canonical reason is key ignoring case, in input order
RowsOfReason(rows, key) ==
    SelectSeq(rows, LAMBDA row : IsSlurmRow(row) /\ lower(CanonicalReason(row)) = lower(key))

C5_ReasonGroups ==
    pc = "return" =>
        \* every SLURM row belongs to a group
        /\ \A i \in DOMAIN reason_rows :
              IsSlurmRow(reason_rows[i]) =>
                 \E g \in DOMAIN output_reasons :
                    lower(output_reasons[g][1]) = lower(CanonicalReason(reason_rows[i]))
        \* no two groups are equal ignoring case
        /\ \A g, h \in DOMAIN output_reasons :
              lower(output_reasons[g][1]) = lower(output_reasons[h][1]) => g = h
        \* a group holds all the rows of its reason, and shows the first row's casing
        /\ \A g \in DOMAIN output_reasons :
              /\ output_reasons[g][2] = RowsOfReason(reason_rows, output_reasons[g][1])
              /\ output_reasons[g][2] # <<>>
              /\ output_reasons[g][1] = CanonicalReason(output_reasons[g][2][1])

\* a group of three rows whose later rows are cased differently from the first
C5_Witness ==
    /\ pc = "return"
    /\ \E g \in DOMAIN output_reasons :
          /\ Len(output_reasons[g][2]) = 3
          /\ output_reasons[g][1] = <<"M","e","m","o","r","y"," ","E","r","r","o","r">>
          /\ CanonicalReason(output_reasons[g][2][2]) = <<"m","e","m","o","r","y"," ","e","r","r","o","r">>
          /\ CanonicalReason(output_reasons[g][2][3]) = <<"M","E","M","O","R","Y"," ","e","r","r","o","r">>

(***************************************************************************)
(* C6.  A host is classified as a compute node if and only if it ends with *)
(* the letter n, exactly 4 digits, a literal ".", and one or more          *)
(* alphanumeric characters; when it matches, the node number is the        *)
(* integer value of the 4 digits and the cluster name is the text after    *)
(* the "." verbatim.                                                       *)
(***************************************************************************)
IsAlphanumeric(c) == c \in Range(LowerCase) \cup Range(UpperCase) \cup Range(Digits)
\* h ends with "n", 4 digits, ".", alphanumerics, the "n" being character i
EndsAsComputeNodeAt(h, i) ==
    /\ i + 6 <= Len(h)
    /\ h[i] = "n"
    /\ \A k \in (i + 1)..(i + 4) : IsDigit(h[k])
    /\ h[i + 5] = "."
    /\ \A k \in (i + 6)..Len(h) : IsAlphanumeric(h[k])
EndsAsComputeNode(h) == \E i \in DOMAIN h : EndsAsComputeNodeAt(h, i)

C6_ComputeHost ==
    pc = "return" =>
        /\ host_type = "COMPUTE" <=> EndsAsComputeNode(hostname)
        /\ EndsAsComputeNode(hostname) =>
              LET i == CHOOSE i \in DOMAIN hostname : EndsAsComputeNodeAt(hostname, i)
              IN cluster_nodes = ok(<< <<SubSeq(hostname, i + 6, Len(hostname)),
                                         <<int_value(SubSeq(hostname, i + 1, i + 4))>> >> >>)

(***************************************************************************)
(* C7.  A row whose host does not match the compute-node pattern (for      *)
(* example "n12345.clusterB") is classified as non-compute and contributes *)
(* to no node range, but it is still present in the raw dump of the        *)
(* rendered digests produced by a run.                                     *)
(***************************************************************************)
\* row is one of the rows of a raw table of the plaintext digest
InTextRawDump(doc, row) ==
    \E i \in DOMAIN doc :
        /\ \E j \in 1..(i - 1) : IsRawStart(doc[j])
        /\ doc[i] = piece("%s\n", <<join(<<","," ">>, row)>>)
\* row is one of the rows of a raw table of the markup digest
InHtmlRawDump(doc, row) ==
    \E i \in DOMAIN doc :
        /\ \E j \in 1..(i - 1) : IsRawStart(doc[j])
        /\ i + Len(row) <= Len(doc)
        /\ doc[i] = piece("<tr>", <<>>)
        /\ \A k \in DOMAIN row : doc[i + k] = piece("<td>%s</td>", <<row[k]>>)
\* row is in one of the buckets
InSomeBucket(buckets, row) == \E b \in DOMAIN buckets : row \in Range(buckets[b][2])

C7_NonComputeRow ==
    Rendered =>
        \A i \in DOMAIN parsed_file :
            ~re_search(COMPUTE_PATTERN, parsed_file[i][FIELDS[<<"H","O","S","T">>]]) =>
                /\ parsed_file[i] \in Range(get(host_type_rows, "OTHER"))
                /\ ~InSomeBucket(slurm_rows, parsed_file[i])
                /\ InTextRawDump(email_text, parsed_file[i])
                /\ InHtmlRawDump(email_html, parsed_file[i])

\* what does hold: a row of a compute host is in the raw dump of both digests
C7_ComputeRowsDumped ==
    Rendered =>
        \A i \in DOMAIN parsed_file :
            re_search(COMPUTE_PATTERN, parsed_file[i][FIELDS[<<"H","O","S","T">>]]) =>
                /\ InTextRawDump(email_text, parsed_file[i])
                /\ InHtmlRawDump(email_html, parsed_file[i])

(***************************************************************************)
(* C8.  An input line that does not split into exactly 7 fields is         *)
(* rejected with a Schema Violation error identifying the line: it appears *)
(* in no bucket, its fields are never padded or truncated into a 7-field   *)
(* row, and no unrelated index-range failure is raised.                    *)
(***************************************************************************)
IsWellFormedLine(line) == Len(split(line, ",")) = Len(FIELDS_keys)
C8_MalformedLineRejected ==
    pc \notin {"check", "parse"} =>
        /\ exc # "IndexError"
        /\ change_file.exists /\ change_file.lines # <<>> /\ pc # "exit" =>
              Len(parsed_file) = Len(SelectSeq(change_file.lines, IsWellFormedLine))

(***************************************************************************)
(* C9.  With empty problem, recovery and other row lists, get_digest_html  *)
(* and get_digest_text return without raising, and the digest contains     *)
(* zero category sections and three raw-dump count lines each reporting 0. *)
(***************************************************************************)
EmptyDigest(doc) ==
    /\ CategoryPositions(doc) = {}
    /\ Cardinality(CountPositions(doc)) = 3
    /\ \A i \in CountPositions(doc) : doc[i].args[1] = <<"0">>

C9_EmptyInput ==
    (/\ pc \notin {"check", "parse", "partition", "digest"}
     /\ notification_type_rows # <<>>
     /\ problem_rows = <<>> /\ recovery_rows = <<>> /\ other_rows = <<>>) =>
        /\ Rendered
        /\ EmptyDigest(email_html)
        /\ EmptyDigest(email_text)

(***************************************************************************)
(* C10.  In both renderers the category sections appear in the fixed order *)
(* Hardware, NHC, Software, Other, and a category section (its header) is  *)
(* emitted only when that sub-category bucket contains at least one row.   *)
(***************************************************************************)
\* the index of a category label in the fixed order
CategoryIndex(label) == CHOOSE n \in DOMAIN CategoryLabels : CategoryLabels[n] = label
CategoriesInOrder(doc) ==
    \A i, j \in CategoryPositions(doc) :
        i < j => CategoryIndex(CategoryLabel(doc[i])) < CategoryIndex(CategoryLabel(doc[j]))
OnlyNonEmptyCategories(doc, by_category) ==
    \A i \in CategoryPositions(doc) :
        get(by_category, CategoryKeys[CategoryIndex(CategoryLabel(doc[i]))]) # <<>>

C10_CategorySections ==
    Rendered =>
        /\ CategoriesInOrder(email_html) /\ OnlyNonEmptyCategories(email_html, slurm_rows)
        /\ CategoriesInOrder(email_text) /\ OnlyNonEmptyCategories(email_text, slurm_rows)

\* what does hold: all four headers, in the fixed order, whatever the buckets hold
C10_AllCategoriesInOrder ==
    Rendered =>
        /\ CategoriesInOrder(email_html) /\ Cardinality(CategoryPositions(email_html)) = 4
        /\ CategoriesInOrder(email_text) /\ Cardinality(CategoryPositions(email_text)) = 4

(***************************************************************************)
(* The report tree a rendered document shows, in either format: its        *)
(* category headers, reason entries and cluster entries in document order, *)
(* each with the strings it displays.                                      *)
(***************************************************************************)
IsTreePiece(p) == IsCategory(p) \/ IsReason(p) \/ IsCluster(p)
TreeItem(p) ==
    IF IsCategory(p) THEN <<"category", <<CategoryLabel(p)>> >>
    ELSE IF IsReason(p) THEN <<"reason", p.args>>
    ELSE <<"cluster", p.args>>
Outline(doc) ==
    LET shown == SelectSeq(doc, IsTreePiece)
    IN [i \in DOMAIN shown |-> TreeItem(shown[i])]
\* both renderers returned a document for digest_rows
DigestsReturned == pc = "return" /\ digest_html.exc = "" /\ digest_text.exc = ""

(***************************************************************************)
(* C11.  For any problem rows, the markup renderer and the plaintext       *)
(* renderer emit the same ordered sequence of category labels, reason      *)
(* display strings, cluster names and compressed range strings: they agree *)
(* on category order, reason order, cluster order and range formatting.    *)
(***************************************************************************)
C11_RenderersAgree ==
    /\ pc = "return" => digest_html.exc = digest_text.exc
    /\ DigestsReturned => Outline(digest_html.val) = Outline(digest_text.val)

\* a digest with two reasons under Hardware, one of them on two clusters that the
\* rows name in descending order
C11_Witness ==
    /\ DigestsReturned
    /\ \E i \in DOMAIN Outline(digest_text.val) :
          /\ i + 4 <= Len(Outline(digest_text.val))
          /\ Outline(digest_text.val)[i] = <<"category", <<<<"H","a","r","d","w","a","r","e">>>> >>
          /\ Outline(digest_text.val)[i + 1] = <<"reason", <<<<"f","a","n"," ","f","a","i","l","u","r","e">>>> >>
          /\ Outline(digest_text.val)[i + 2] = <<"cluster", <<<<"c","f","1">>, <<"n","0","0","0","2">>>> >>
          /\ Outline(digest_text.val)[i + 3] = <<"cluster", <<<<"l","r","3">>, <<"n","0","0","0","1">>>> >>
          /\ Outline(digest_text.val)[i + 4] = <<"reason", <<<<"M","e","m","o","r","y"," ","e","r","r","o","r">>>> >>
    /\ Outline(digest_html.val) = Outline(digest_text.val)

(***************************************************************************)
(* C12.  The change file is truncated only after the digest has been       *)
(* delivered: in every execution of main, a step that changes the change   *)
(* file is taken with the message delivered and no exception raised, so    *)
(* while send_email_html has not completed, or when it raised, the file's  *)
(* contents are unchanged.                                                 *)
(***************************************************************************)
C12_TruncateAfterDelivery ==
    [][change_file' # change_file => (outbox # <<>> /\ exc = "" /\ pc = "truncate")]_vars

\* a run that delivered its digest and then truncated the file it had parsed
C12_Witness ==
    /\ pc = "exit"
    /\ exc = ""
    /\ outbox = <<[html |-> email_html, text |-> email_text]>>
    /\ parsed_file # <<>>
    /\ change_file = [exists |-> TRUE, lines |-> <<>>]

\* a run whose send_email_html raised ends with the file as it was parsed
C12_FileKeptOnFailure ==
    (pc = "exit" /\ exc = "SMTPException") =>
        /\ outbox = <<>>
        /\ parse_change_file(change_file.lines) = ok(parsed_file)
        /\ parsed_file # <<>>

(***************************************************************************)
(* Reading a configuration file back: its cluster sections.  A section is  *)
(* a header line and the lines after it up to the next blank line, the     *)
(* next header or the end of the file.                                     *)
(***************************************************************************)
StrippedLines(file) == [i \in DOMAIN file.lines |-> strip(file.lines[i])]
IsDesignatedHeader(line) == \E c \in DOMAIN CLUSTERS : CLUSTERS[c] = line
IsHeader(line) == line # <<>> /\ Head(line) = "["
\* the first position after header i that is outside its section
ClusterEnd(ls, i) ==
    Least({j \in (i + 1)..Len(ls) : ls[j] = <<>> \/ IsHeader(ls[j])} \cup {Len(ls) + 1})
ClusterLines(ls, i) == (i + 1)..(ClusterEnd(ls, i) - 1)
\* the section of header i holds the entry exactly once
HoldsEntryOnce(ls, i, given) == Cardinality({j \in ClusterLines(ls, i) : ls[j] = given}) = 1
\* the section of header i holds the entry once, after its entries with a valid prefix
HoldsEntryOnceAtEnd(ls, i, given) ==
    /\ HoldsEntryOnce(ls, i, given)
    /\ \A j, k \in ClusterLines(ls, i) :
          (ls[j] = given /\ ls[k] # given /\ lrc_search(LRC_PATTERN, ls[k])) => k < j
\* add_entry ran over the file and reported no error
AddedWithoutError == pc = "return" /\ config_file.exists /\ exc = "" /\ errors = <<>>

(***************************************************************************)
(* C13.  add_entry adds the new entry to every designated cluster: after a *)
(* run over a configuration file that reports no error, each section whose *)
(* header line is in CLUSTERS contains the new entry exactly once, placed   *)
(* after all of that section's valid-prefix entries, including a section   *)
(* that is the last one in the file and is not followed by a blank line.   *)
(***************************************************************************)
C13_EntryInEveryCluster ==
    AddedWithoutError =>
        \A i \in DOMAIN config_file.lines :
            IsDesignatedHeader(StrippedLines(config_file)[i]) =>
                HoldsEntryOnceAtEnd(StrippedLines(config_file), i, new_entry)

\* what does hold: a section that a blank line closes contains the entry exactly once
C13_EntryInClosedClusters ==
    AddedWithoutError =>
        \A i \in DOMAIN config_file.lines :
            (/\ IsDesignatedHeader(StrippedLines(config_file)[i])
             /\ ClusterEnd(StrippedLines(config_file), i) <= Len(config_file.lines)
             /\ StrippedLines(config_file)[ClusterEnd(StrippedLines(config_file), i)] = <<>>) =>
                HoldsEntryOnce(StrippedLines(config_file), i, new_entry)
C13_ReachedClosedCluster ==
    /\ AddedWithoutError
    /\ config_file.lines = <<<<"[","l","r","3","]","\n">>, <<"a","c","c","o","u","n","t","_","0","0","1","=","a","c","_","a",":","1","\n">>, new_entry \o <<"\n">>, <<"\n">>,
                             <<"[","m","i","s","c","]","\n">>>>

(***************************************************************************)
(* C14.  A row contributes to the categorized problem digest if and only   *)
(* if its host is a compute node (it matches COMPUTE_PATTERN), its         *)
(* notification type is exactly PROBLEM and its service is exactly SLURM:  *)
(* these rows, and no others, are in the sub-category buckets, and the     *)
(* reasons the digest shows are theirs.  RECOVERY rows, rows of another    *)
(* notification type and problem rows of another service are in the raw    *)
(* dump only.                                                              *)
(***************************************************************************)
IsComputeRow(row) == re_search(COMPUTE_PATTERN, row[FIELDS[<<"H","O","S","T">>]])
IsCategorized(row) ==
    /\ IsComputeRow(row)
    /\ row[FIELDS[<<"N","O","T","I","F","I","C","A","T","I","O","N"," ","T","Y","P","E">>]] = <<"P","R","O","B","L","E","M">>
    /\ row[FIELDS[<<"S","E","R","V","I","C","E">>]] = <<"S","L","U","R","M">>
\* the reasons a digest shows, in lower case
ShownReasons(doc) ==
    {lower(doc[j].args[1]) : j \in {j \in DOMAIN doc : IsReason(doc[j])}}
CategorizedReasons(rows) ==
    {lower(CanonicalReason(rows[i])) : i \in {i \in DOMAIN rows : IsCategorized(rows[i])}}

RecognizedLabels == {<<"H","a","r","d","w","a","r","e">>, <<"N","H","C">>, <<"S","o","f","t","w","a","r","e">>}
BeginsWithLabel(info) ==
    \E label \in RecognizedLabels :
        /\ Len(info) > Len(label)
        /\ \A i \in DOMAIN label : info[i] = label[i]
        /\ info[Len(label) + 1] = ":"
AfterFirstColon(info) ==
    SubSeq(info, Least({i \in DOMAIN info : info[i] = ":"}) + 1, Len(info))
\* the positions where a word (a maximal run without whitespace) begins, and the word
WordStarts(text) ==
    {i \in DOMAIN text : ~IsSpace(text[i]) /\ (i = 1 \/ IsSpace(text[i - 1]))}
WordAt(text, i) ==
    SubSeq(text, i, Least({j \in i..Len(text) : j = Len(text) \/ IsSpace(text[j + 1])}))
\* the words that begin at these positions, with one space between two words
RECURSIVE WordsSpaced(_, _)
WordsSpaced(text, starts) ==
    IF starts = {} THEN <<>>
    ELSE WordAt(text, Least(starts))
         \o (IF starts = {Least(starts)} THEN <<>> ELSE <<" ">>)
         \o WordsSpaced(text, starts \ {Least(starts)})
Collapsed(text) == WordsSpaced(text, WordStarts(text))
SpecifiedReason(info) ==
    IF BeginsWithLabel(info) THEN Collapsed(AfterFirstColon(info)) ELSE Collapsed(info)

C15_CanonicalReason ==
    pc = "return" =>
        \A g \in DOMAIN output_reasons :
            /\ output_reasons[g][1] =
                   SpecifiedReason(output_reasons[g][2][1][FIELDS[<<"A","D","D","I","T","I","O","N","A","L"," ","I","N","F","O">>]])
            /\ \A r \in DOMAIN output_reasons[g][2] :
                   lower(SpecifiedReason(output_reasons[g][2][r][FIELDS[<<"A","D","D","I","T","I","O","N","A","L"," ","I","N","F","O">>]]))
                       = lower(output_reasons[g][1])

\* a reason cut after the first of two colons, a field kept whole because its label is in
\* lower case, and a reason whose whitespace was collapsed
C15_Witness ==
    /\ pc = "return"
    /\ Len(reason_rows) = 3
    /\ reason_rows[1][FIELDS[<<"A","D","D","I","T","I","O","N","A","L"," ","I","N","F","O">>]] = <<"S","o","f","t","w","a","r","e",":"," ","d","i","s","k",":"," "," ","f","u","l","l">>
    /\ reason_rows[2][FIELDS[<<"A","D","D","I","T","I","O","N","A","L"," ","I","N","F","O">>]] = <<"h","a","r","d","w","a","r","e",":"," ","M","e","m","o","r","y"," ","E","r","r","o","r">>
    /\ reason_rows[3][FIELDS[<<"A","D","D","I","T","I","O","N","A","L"," ","I","N","F","O">>]] = <<"H","a","r","d","w","a","r","e",":"," "," ","M","E","M","O","R","Y","\t","e","r","r","o","r"," ">>
    /\ keys(output_reasons) = <<<<"d","i","s","k",":"," ","f","u","l","l">>, <<"h","a","r","d","w","a","r","e",":"," ","M","e","m","o","r","y"," ","E","r","r","o","r">>, <<"M","E","M","O","R","Y"," ","e","r","r","o","r">>>>

(***************************************************************************)
(* C16.  Within each sub-category, reason groups are emitted in ascending  *)
(* order of the lower-case form of their display strings, and no two       *)
(* emitted groups of one sub-category have display strings that are equal  *)
(* ignoring case.                                                          *)
(***************************************************************************)
\* a is before b in alphabetical (code point) order
Precedes(a, b) ==
    \E n \in 1..Len(b) :
        /\ \A i \in 1..(n - 1) : i <= Len(a) /\ a[i] = b[i]
        /\ (n > Len(a) \/ (n <= Len(a) /\ Ord(a[n]) < Ord(b[n])))
ReasonsAscending(doc) ==
    \A i \in CategoryPositions(doc) :
        \A j, k \in ReasonPositions(doc, i) :
            j < k => Precedes(lower(doc[j].args[1]), lower(doc[k].args[1]))

C16_ReasonOrder ==
    DigestsReturned => ReasonsAscending(digest_html.val) /\ ReasonsAscending(digest_text.val)

\* two Hardware reasons given in the other order, which is also their order by code point
C16_Witness ==
    /\ DigestsReturned
    /\ Len(digest_rows) = 3
    /\ digest_rows[1][FIELDS[<<"A","D","D","I","T","I","O","N","A","L"," ","I","N","F","O">>]] = <<"H","a","r","d","w","a","r","e",":"," ","M","e","m","o","r","y"," ","e","r","r","o","r">>
    /\ digest_rows[2][FIELDS[<<"A","D","D","I","T","I","O","N","A","L"," ","I","N","F","O">>]] = <<"H","a","r","d","w","a","r","e",":"," ","F","a","n"," ","f","a","i","l","u","r","e">>
    /\ digest_rows[3][FIELDS[<<"A","D","D","I","T","I","O","N","A","L"," ","I","N","F","O">>]] = <<"H","a","r","d","w","a","r","e",":"," ","f","a","n"," ","f","a","i","l","u","r","e">>
    /\ \E i \in CategoryPositions(digest_text.val) :
          \E j, k \in ReasonPositions(digest_text.val, i) :
              /\ j < k
              /\ ReasonPositions(digest_text.val, i) = {j, k}
              /\ digest_text.val[j].args = <<<<"F","a","n"," ","f","a","i","l","u","r","e">>>>
              /\ digest_text.val[k].args = <<<<"M","e","m","o","r","y"," ","e","r","r","o","r">>>>

(***************************************************************************)
(* C17.  Node numbers of different clusters are never merged: for each     *)
(* reason group, each cluster name has its own entry whose range covers    *)
(* exactly the node numbers of that group's hosts carrying that cluster    *)
(* suffix, and the cluster entries of one reason are emitted in ascending  *)
(* alphabetical order of cluster name.                                     *)
(***************************************************************************)
\* the cluster suffix and the node number of a compute host "n<digits>.<cluster>"
HostCluster(h) == SubSeq(h, Least({i \in DOMAIN h : h[i] = "."}) + 1, Len(h))
HostNumber(h) == int_value(SubSeq(h, 2, Least({i \in DOMAIN h : h[i] = "."}) - 1))
\* the label of the sub-category a SLURM row belongs to
RowCategory(row) ==
    LET info == row[FIELDS[<<"A","D","D","I","T","I","O","N","A","L"," ","I","N","F","O">>]] IN
    IF BeginsWithLabel(info)
    THEN CHOOSE label \in RecognizedLabels : startswith(info, label \o <<":">>)
    ELSE <<"O","t","h","e","r">>
\* the hosts of the compute rows of the group shown as reason under category
GroupHosts(rows, category, reason) ==
    {rows[r][FIELDS[<<"H","O","S","T">>]] :
        r \in {r \in DOMAIN rows :
                  /\ IsCategorized(rows[r])
                  /\ RowCategory(rows[r]) = category
                  /\ lower(SpecifiedReason(rows[r][FIELDS[<<"A","D","D","I","T","I","O","N","A","L"," ","I","N","F","O">>]])) = lower(reason)}}
\* the cluster entries of reason entry j of doc, under category header i
ClustersApart(doc, i, j, rows) ==
    LET hosts == GroupHosts(rows, CategoryLabel(doc[i]), doc[j].args[1]) IN
    /\ {doc[k].args[1] : k \in ClusterPositions(doc, j)} = {HostCluster(h) : h \in hosts}
    /\ \A k \in ClusterPositions(doc, j) :
          Expand(doc[k].args[2]) =
              {HostNumber(h) : h \in {h \in hosts : HostCluster(h) = doc[k].args[1]}}
    /\ \A k, l \in ClusterPositions(doc, j) :
          k < l => Precedes(doc[k].args[1], doc[l].args[1])
ClustersNeverMerged(doc, rows) ==
    \A i \in CategoryPositions(doc) :
        \A j \in ReasonPositions(doc, i) : ClustersApart(doc, i, j, rows)

C17_ClustersNeverMerged ==
    DigestsReturned =>
        /\ ClustersNeverMerged(digest_html.val, digest_rows)
        /\ ClustersNeverMerged(digest_text.val, digest_rows)

\* one reason on two clusters, named in descending order, that share a node number
C17_Witness ==
    /\ DigestsReturned
    /\ Len(digest_rows) = 3
    /\ digest_rows[1][FIELDS[<<"H","O","S","T">>]] = <<"n","0","0","0","1",".","l","r","3">>
    /\ digest_rows[2][FIELDS[<<"H","O","S","T">>]] = <<"n","0","0","0","2",".","l","r","3">>
    /\ digest_rows[3][FIELDS[<<"H","O","S","T">>]] = <<"n","0","0","0","2",".","c","f","1">>
    /\ \E j \in DOMAIN digest_html.val :
          /\ IsReason(digest_html.val[j])
          /\ \E k, l \in ClusterPositions(digest_html.val, j) :
                /\ k < l
                /\ ClusterPositions(digest_html.val, j) = {k, l}
                /\ digest_html.val[k].args = <<<<"c","f","1">>, <<"n","0","0","0","2">>>>
                /\ digest_html.val[l].args = <<<<"l","r","3">>, <<"n","0","0","0","1","-","n","0","0","0","2">>>>

(***************************************************************************)
(* C18.  The range compressor applied to an empty node list produces an    *)
(* empty interval list and returns the empty string, without raising an    *)
(* error.                                                                  *)
(***************************************************************************)
C18_EmptyNodeList ==
    (pc = "return" /\ node_list = <<>>) =>
        /\ node_list_string.exc = ""
        /\ Entries(node_list_string.val) = <<>>
        /\ node_list_string.val = <<>>

\* what the code does on the empty list: line 210 raises IndexError
C18_EmptyNodeListRaises ==
    (pc = "return" /\ node_list = <<>>) => node_list_string.exc = "IndexError"
C18_ReachedEmptyNodeList == pc = "return" /\ node_list = <<>>

(***************************************************************************)
(* C19.  For any problem rows given to get_digest_html or get_digest_text, *)
(* every reason entry rendered in the digest has at least one cluster      *)
(* entry and every cluster entry has a non-empty range: a reason group or  *)
(* cluster left with zero node numbers after compute-host filtering is     *)
(* omitted rather than rendered empty.                                     *)
(***************************************************************************)
NoEmptyLeaf(doc) ==
    /\ \A j \in DOMAIN doc : IsReason(doc[j]) => ClusterPositions(doc, j) # {}
    /\ \A k \in DOMAIN doc : IsCluster(doc[k]) => doc[k].args[2] # <<>>

C19_NoEmptyLeaf ==
    DigestsReturned => NoEmptyLeaf(digest_html.val) /\ NoEmptyLeaf(digest_text.val)

\* what does hold: no cluster entry has an empty range, and a reason entry has no
\* cluster entry exactly when none of its group's hosts matches COMPUTE_PATTERN
ReasonEmptyIffNoComputeHost(doc, rows) ==
    /\ \A k \in DOMAIN doc : IsCluster(doc[k]) => doc[k].args[2] # <<>>
    /\ \A i \in CategoryPositions(doc) :
          \A j \in ReasonPositions(doc, i) :
              ClusterPositions(doc, j) = {}
                  <=> GroupHosts(rows, CategoryLabel(doc[i]), doc[j].args[1]) = {}
C19_EmptyOnlyWithoutComputeHost ==
    DigestsReturned =>
        /\ ReasonEmptyIffNoComputeHost(digest_html.val, digest_rows)
        /\ ReasonEmptyIffNoComputeHost(digest_text.val, digest_rows)
\* and the digests main renders have no empty leaf, main passing on compute rows only
C19_NoEmptyLeafInMain ==
    Rendered => NoEmptyLeaf(email_html) /\ NoEmptyLeaf(email_text)
C19_ReachedEmptyReason ==
    /\ DigestsReturned
    /\ Len(digest_rows) = 1
    /\ digest_rows[1][FIELDS[<<"H","O","S","T">>]] = <<"n","1","2","3","4","5",".","c","l","u","s","t","e","r","B">>
    /\ \E j \in DOMAIN digest_text.val :
          /\ digest_text.val[j] = piece("\t\t%s\n", <<<<"D","i","s","k"," ","e","r","r","o","r">>>>)
          /\ ClusterPositions(digest_text.val, j) = {}

(***************************************************************************)
(* C20.  When the change file is missing or has size 0, main ends as a     *)
(* clean no-op: no row is parsed, no digest is rendered or sent, no        *)
(* exception is raised, and the change file is not written.                *)
(***************************************************************************)
\* the file is missing, or has size 0 without this run having parsed rows from it
MissingOrEmpty == ~change_file.exists \/ (change_file.lines = <<>> /\ parsed_file = <<>>)
NothingDone ==
    /\ pc \in {"check", "exit"}
    /\ exc = ""
    /\ parsed_file = <<>> /\ host_type_rows = <<>> /\ notification_type_rows = <<>>
    /\ email_html = <<>> /\ email_text = <<>>
    /\ outbox = <<>>

C20_NoOpOnMissingOrEmpty ==
    /\ [](MissingOrEmpty => NothingDone)
    /\ [][MissingOrEmpty => change_file' = change_file]_vars

\* main has ended on a file of size 0
C20_Witness ==
    /\ pc = "exit"
    /\ change_file = [exists |-> TRUE, lines |-> <<>>]
    /\ NothingDone
\* main has ended on a missing file
C20_ReachedMissing ==
    /\ pc = "exit"
    /\ ~change_file.exists
    /\ NothingDone

(***************************************************************************)
(* C21.  Every host that get_rows_by_host_type classifies as COMPUTE is    *)
(* decomposed by get_nodes_by_cluster into an integer node number and a    *)
(* cluster name without raising: splitting the host on "." yields exactly  *)
(* two parts and the first part without its leading character is a decimal *)
(* integer.                                                                *)
(***************************************************************************)
IsDecimal(text) == text # <<>> /\ \A i \in DOMAIN text : IsDigit(text[i])
\* the host splits on "." into a node name and a cluster
SplitsInTwo(h) ==
    /\ Cardinality({i \in DOMAIN h : h[i] = "."}) = 1
    /\ IsDecimal(SubSeq(h, 2, Least({i \in DOMAIN h : h[i] = "."}) - 1))

C21_ComputeHostDecomposes ==
    (pc = "return" /\ host_type = "COMPUTE") =>
        /\ SplitsInTwo(hostname)
        /\ cluster_nodes.exc = ""
        /\ cluster_nodes.val = << <<HostCluster(hostname), <<HostNumber(hostname)>> >> >>

\* what does hold: a COMPUTE host that does split in two is decomposed without raising,
\* and a COMPUTE host that does not makes get_nodes_by_cluster raise ValueError
C21_DecomposesWhenSplitInTwo ==
    (pc = "return" /\ host_type = "COMPUTE") =>
        IF SplitsInTwo(hostname)
        THEN cluster_nodes = ok(<< <<HostCluster(hostname), <<HostNumber(hostname)>> >> >>)
        ELSE cluster_nodes.exc = "ValueError"
C21_ReachedDecomposed ==
    /\ pc = "return"
    /\ host_type = "COMPUTE"
    /\ hostname = <<"n","0","0","1","0",".","l","r","3">>
    /\ cluster_nodes = ok(<< <<<<"l","r","3">>, <<10>> >> >>)
C21_ReachedRaise ==
    /\ pc = "return"
    /\ host_type = "COMPUTE"
    /\ hostname = <<"n","0","0","1","0","x","a">>
    /\ cluster_nodes.exc = "ValueError"

(***************************************************************************)
(* C22.  When a writer appends event lines to the change file concurrently *)
(* with a run of main, no line is removed from the change file unless it   *)
(* was among the rows of the digest that run delivered: a line appended    *)
(* after parse_change_file has read the file and before the truncation is  *)
(* not lost.                                                               *)
(***************************************************************************)
\* line i of the file is not in the file after the step
IsRemoved(i) ==
    i > Len(change_file'.lines) \/ change_file'.lines[i] # change_file.lines[i]
\* line i of the file is row i of the rows this run parsed and delivered a digest of
IsDelivered(i) ==
    /\ outbox # <<>>
    /\ i <= Len(parsed_file)
    /\ parse_change_file(<<change_file.lines[i]>>) = ok(<<parsed_file[i]>>)

C22_NoLineLost ==
    [][\A i \in DOMAIN change_file.lines : IsRemoved(i) => IsDelivered(i)]_vars

\* what does hold: when main truncates the file, the file begins with the lines main
\* parsed, and the lines after them are the ones appended since
C22_ParsedLinesFirst ==
    pc = "truncate" =>
        /\ Len(parsed_file) <= Len(change_file.lines)
        /\ parse_change_file(SubSeq(change_file.lines, 1, Len(parsed_file))) = ok(parsed_file)
        /\ \A i \in (Len(parsed_file) + 1)..Len(change_file.lines) :
              change_file.lines[i] \in WriterLines
\* main is about to truncate a file that holds a line it has not parsed
C22_ReachedUnparsedLine ==
    /\ pc = "truncate"
    /\ outbox # <<>>
    /\ Len(change_file.lines) = Len(parsed_file) + 1

====
